---- MODULE Spec2Model ----
(***************************************************************************)
(* Signed usage accounting of continuum-api (src/logger.py, DataLogger)    *)
(* and the dashboard's heartbeat verifier (src/c3_dashboard.py).           *)
(*                                                                         *)
(* Text values are sequences of one-character strings, so that formatting  *)
(* (str, f-strings) and parsing (int) are computed, not assumed.  An HMAC  *)
(* digest is the text "h" key ":" data: two digests are equal exactly when *)
(* key and data are equal (no collisions, no forgery without the key).     *)
(***************************************************************************)
EXTENDS Integers, Sequences, FiniteSets, TLC

VARIABLES
    now,          \* the UTC clock, in ticks (datetime.utcnow())
    events,       \* committed rows of table usage_events, in rowid order
    meta,         \* committed rows of table usage_meta: key -> value or NULL
    usage_lock,   \* self._usage_lock: the thread holding it, or NoThread
    pc,           \* per thread: position in the running logger call
    loc,          \* per thread: local variables of the running call
    files,        \* usage_dir: month key -> the two summary artifacts
    outcomes,     \* history: what callers were told, with what was recorded
    ncalls,       \* number of logger calls started
    ndone,        \* number of _append_usage_event calls that returned
    nok,          \* number of _append_usage_event calls that committed
    finalLog,     \* history: the rollover finalizes started, per month
    emitted,      \* history: the last two summaries returned, per month
    tamper,       \* history: the out-of-band edit made to the database file
    lic,          \* dashboard: the license envelope and the decrypt under way
    sess,         \* dashboard: st.session_state of one operator session
    run,          \* dashboard history: the last run of the script in the session
    wall,         \* dashboard: time.time(), in seconds
    call          \* per function called on its own: its inputs and its result

\* The state of the DataLogger and its store.
logVars == <<now, events, meta, usage_lock, pc, loc, files, outcomes, ncalls,
             ndone, nok, finalLog, emitted, tamper>>

\* The state of the dashboard process (c3_dashboard.py).
dashVars == <<lic, sess, run, wall>>

vars == <<logVars, dashVars, call>>

----------------------------------------------------------------------------
(* Bounds of the model *)

\* The clock runs through ticks 0..MaxClock.
MaxClock == 2
\* Clock ticks per calendar month (one tick is one calendar day).
TicksPerMonth == 2
\* Logger calls started in one behaviour.
MaxCalls == 2
Threads == {1, 2}
NoThread == 0
NULL == <<"NULL">>

----------------------------------------------------------------------------
(* Text: str(int), int(str), str.strip() *)

DigitChars == <<"0", "1", "2", "3", "4", "5", "6", "7", "8", "9">>

RECURSIVE Str(_)
\* str(n)
Str(n) ==
    IF n < 0 THEN <<"-">> \o Str(0 - n)
    ELSE IF n < 10 THEN <<DigitChars[n + 1]>>
    ELSE Str(n \div 10) \o <<DigitChars[(n % 10) + 1]>>

RECURSIVE LStrip(_)
LStrip(s) == IF s # <<>> /\ Head(s) = " " THEN LStrip(Tail(s)) ELSE s

RECURSIVE RStrip(_)
RStrip(s) ==
    IF s # <<>> /\ s[Len(s)] = " " THEN RStrip(SubSeq(s, 1, Len(s) - 1)) ELSE s

\* str.strip()
Strip(s) == LStrip(RStrip(s))

RECURSIVE DigitsValue(_)
DigitsValue(s) ==
    LET DigitValue(c) == CHOOSE d \in 0..9 : DigitChars[d + 1] = c
    IN
    IF s = <<>> THEN 0
    ELSE 10 * DigitsValue(SubSeq(s, 1, Len(s) - 1)) + DigitValue(s[Len(s)])

\* Whether int(s) succeeds: surrounding blanks, an optional sign, then digits.
IntParses(s) ==
    LET IsDigit(c) == \E d \in 1..10 : DigitChars[d] = c
    IN
    LET b == Strip(s)
        d == IF b # <<>> /\ Head(b) \in {"+", "-"} THEN Tail(b) ELSE b
    IN  /\ s # NULL
        /\ d # <<>>
        /\ \A i \in 1..Len(d) : IsDigit(d[i])

\* int(s), for s with IntParses(s)
IntValue(s) ==
    LET b == Strip(s)
    IN  IF Head(b) = "-" THEN 0 - DigitsValue(Tail(b))
        ELSE IF Head(b) = "+" THEN DigitsValue(Tail(b))
        ELSE DigitsValue(b)

\* _safe_int(v, default): int(v), or default when int raises
SafeInt(v, default) == IF IntParses(v) THEN IntValue(v) ELSE default

\* _safe_str(v, default)
SafeStr(v, default) == IF v = NULL THEN default ELSE v

----------------------------------------------------------------------------
(* Time helpers *)

MonthOf(t) == t \div TicksPerMonth

\* _utc_dates()[0], the "%Y-%m" key
MonthKey(t) == <<"m">> \o Str(MonthOf(t))

\* _utc_dates()[1], the "%Y%m%d" key
DayKey(t) == MonthKey(t) \o <<"d">> \o Str(t % TicksPerMonth)

\* _utc_dates()
UtcDates(t) == <<MonthKey(t), DayKey(t)>>

\* _utc_iso(): the instant, to the resolution of the clock
UtcIso(t) == DayKey(t) \o <<"z">>

MonthKeys == {MonthKey(t) : t \in 0..MaxClock}

----------------------------------------------------------------------------
(* Signatures *)

\* self._usage_signing_key (USAGE_SIGNING_KEY, else LOG_SALT)
UsageSigningKey == <<"k">>

\* hmac.new(key, data, sha256).hexdigest()
Hmac(key, data) == <<"h">> \o key \o <<":">> \o data

\* _heartbeat_signature: the MAC of f"{total_events}|{counter}|{event_id}|{ts_utc}"
HeartbeatSignature(total_events, counter, event_id, ts_utc) ==
    Hmac(UsageSigningKey,
         Str(total_events) \o <<"|">> \o Str(counter) \o <<"|">>
            \o event_id \o <<"|">> \o ts_utc)

\* _canonical_bytes: json.dumps(payload, sort_keys=True, separators=(",", ":"))
CanonicalBytes(payload) == <<"json", payload>>

\* _sign_payload; the digest of a structured payload stays structured
SignPayload(payload) == <<"h", UsageSigningKey, CanonicalBytes(payload)>>

----------------------------------------------------------------------------
(* The usage store: tables usage_events and usage_meta *)

MetaKeys == {"active_month", "total_events", "heartbeat_counter",
             "last_event_id", "last_event_ts", "last_heartbeat_sig"}

\* The five values every append mirrors into usage_meta.
ChainKeys == MetaKeys \ {"active_month"}

\* _meta_get: the stored value, or default when the key has no row
MetaGet(m, key, default) ==
    IF m[key] = NULL THEN default ELSE SafeStr(m[key], default)

\* _meta_get_int
MetaGetInt(m, key, default) ==
    SafeInt(MetaGet(m, key, Str(default)), default)

\* A _meta_set whose upsert is lost.
MetaSetLost(m, key, value) == m

\* _meta_set: upsert of str(value); callers pass the text of the value
MetaSet(m, key, value) == [m EXCEPT ![key] = value]

Unset == <<"UNSET">>

\* A connection with no statement executed since its last commit.
NoTxn == [rows |-> <<>>, meta |-> [k \in MetaKeys |-> Unset]]

\* A commit that stores the pending rows and drops the pending upserts.
CommitRowsOnly(db, x) == [events |-> db.events \o x.rows, meta |-> db.meta]

\* conn.commit(): the pending rows and upserts become the stored state
Commit(db, x) ==
    [events |-> db.events \o x.rows,
     meta   |-> [k \in MetaKeys |->
                    IF x.meta[k] # Unset THEN x.meta[k] ELSE db.meta[k]]]

\* A rollback that keeps what was pending.
RollbackKeepsPending(db, x) == Commit(db, x)

\* conn.rollback(), and conn.close() with statements pending
Rollback(db, x) == db

\* The UNIQUE constraint on usage_events.event_id
EventIdTaken(ev, x, event_id) ==
    \E i \in 1..Len(ev \o x.rows) : (ev \o x.rows)[i].event_id = event_id

----------------------------------------------------------------------------
(* Chain verification *)

\* DataLogger._heartbeat_status
HeartbeatStatus(m) ==
    LET total_events == MetaGetInt(m, "total_events", 0)
        counter      == MetaGetInt(m, "heartbeat_counter", 0)
        event_id     == MetaGet(m, "last_event_id", <<>>)
        ts_utc       == MetaGet(m, "last_event_ts", <<>>)
        sig          == MetaGet(m, "last_heartbeat_sig", <<>>)
        expected     == HeartbeatSignature(total_events, counter, event_id, ts_utc)
        ok           == sig # <<>> /\ expected = sig
    IN  IF event_id = <<>>
        THEN [ok |-> TRUE, reason |-> "no_events",
              total_events |-> total_events, heartbeat_counter |-> counter]
        ELSE [ok |-> ok,
              reason |-> IF ok THEN "ok" ELSE "signature_mismatch",
              total_events |-> total_events, heartbeat_counter |-> counter,
              last_event_id |-> event_id, last_event_ts |-> ts_utc]

\* str.lower()
Lower(s) ==
    LET LowerChar(c) ==
            CASE c = "A" -> "a" [] c = "H" -> "h" [] c = "K" -> "k" [] OTHER -> c
    IN
    [i \in 1..Len(s) |-> LowerChar(s[i])]

\* _fetch_usage_meta: the dict of the rows present (NULL: key absent)
FetchUsageMeta(m) == m

\* dict.get(key, default) on the fetched meta
DictGet(d, key, default) == IF d[key] = NULL THEN default ELSE d[key]

\* A _verify_heartbeat that signs the payload without the counter.
VerifyHeartbeatNoCounter(d, key) ==
    LET total_events  == SafeInt(DictGet(d, "total_events", NULL), 0)
        last_event_id == Strip(DictGet(d, "last_event_id", <<>>))
        last_event_ts == Strip(DictGet(d, "last_event_ts", <<>>))
        last_sig      == Lower(Strip(DictGet(d, "last_heartbeat_sig", <<>>)))
        payload       == Str(total_events) \o <<"|">> \o last_event_id
                            \o <<"|">> \o last_event_ts
        ok            == last_sig # <<>> /\ Lower(Hmac(key, payload)) = last_sig
    IN  IF last_event_id = <<>> THEN [ok |-> TRUE, reason |-> "no_events"]
        ELSE IF key = <<>> THEN [ok |-> FALSE, reason |-> "missing_signing_key"]
        ELSE [ok |-> ok, reason |-> IF ok THEN "ok" ELSE "signature_mismatch"]

\* c3_dashboard._verify_heartbeat
VerifyHeartbeat(d, key) ==
    LET total_events  == SafeInt(DictGet(d, "total_events", NULL), 0)
        counter       == SafeInt(DictGet(d, "heartbeat_counter", NULL), 0)
        last_event_id == Strip(DictGet(d, "last_event_id", <<>>))
        last_event_ts == Strip(DictGet(d, "last_event_ts", <<>>))
        last_sig      == Lower(Strip(DictGet(d, "last_heartbeat_sig", <<>>)))
        payload       == Str(total_events) \o <<"|">> \o Str(counter) \o <<"|">>
                            \o last_event_id \o <<"|">> \o last_event_ts
        expected      == Lower(Hmac(key, payload))
        ok            == last_sig # <<>> /\ expected = last_sig
    IN  IF last_event_id = <<>>
        THEN [ok |-> TRUE, reason |-> "no_events",
              total_events |-> total_events, heartbeat_counter |-> counter]
        ELSE IF key = <<>>
        THEN [ok |-> FALSE, reason |-> "missing_signing_key",
              total_events |-> total_events, heartbeat_counter |-> counter]
        ELSE [ok |-> ok,
              reason |-> IF ok THEN "ok" ELSE "signature_mismatch",
              total_events |-> total_events, heartbeat_counter |-> counter,
              last_event_id |-> last_event_id, last_event_ts |-> last_event_ts]

----------------------------------------------------------------------------
(* Monthly aggregates *)

RowsOf(ev, month_key, types) ==
    {i \in 1..Len(ev) : ev[i].month = month_key /\ ev[i].event_type \in types}

\* _month_counts
MonthCounts(ev, month_key) ==
    LET AllTypes == {"analysis", "feedback", "error"}
    IN
    [analysis_count |-> Cardinality(RowsOf(ev, month_key, {"analysis", "error"})),
     feedback_count |-> Cardinality(RowsOf(ev, month_key, {"feedback"})),
     total_events   |-> Cardinality(RowsOf(ev, month_key, AllTypes))]

\* _month_decision_counts: GROUP BY decision_state over analysis and error rows
MonthDecisionCounts(ev, month_key) ==
    LET rows == RowsOf(ev, month_key, {"analysis", "error"})
    IN  [d \in {ev[i].decision_state : i \in rows} |->
            Cardinality({i \in rows : ev[i].decision_state = d})]

----------------------------------------------------------------------------
(* Inputs of the logging operations *)

\* str.upper() on the words the callers pass
UpperWord(w) ==
    CASE w = "allow" -> "ALLOW" [] w = "guide" -> "GUIDE"
      [] w = "block" -> "BLOCK" [] w = "error" -> "ERROR"
      [] w = "feedback" -> "FEEDBACK" [] w = "Guide" -> "GUIDE"
      [] w = "Feedback" -> "FEEDBACK" [] w = "maybe" -> "MAYBE"
      [] OTHER -> w

\* str.lower() on the words the callers pass
LowerWord(w) ==
    CASE w = "Block" -> "block" [] w = "Suggest" -> "suggest"
      [] w = "Repair" -> "repair" [] w = "PASS" -> "pass"
      [] w = "No-Op" -> "no-op" [] w = "Failed" -> "failed"
      [] OTHER -> w

\* An _event_decision_state that hands back whatever decision_state holds.
EventDecisionStateEcho(safe_result) ==
    IF "decision_state" \in DOMAIN safe_result
    THEN UpperWord(safe_result["decision_state"]) ELSE "ERROR"

\* _event_decision_state
EventDecisionState(safe_result) ==
    LET \* _safe_str((safe_result or {}).get(key), "")
        Get(key) == IF key \in DOMAIN safe_result THEN safe_result[key] ELSE ""
        decision == UpperWord(Get("decision_state"))
        mode     == LowerWord(Get("mode"))
    IN  IF decision \in {"ALLOW", "GUIDE", "BLOCK", "ERROR"} THEN decision
        ELSE IF mode \in {"block"} THEN "BLOCK"
        ELSE IF mode \in {"suggest", "repair"} THEN "GUIDE"
        ELSE IF mode \in {"no-op", "noop", "allow", "pass"} THEN "ALLOW"
        ELSE IF mode \in {"error", "failed"} THEN "ERROR"
        ELSE "ERROR"

\* The output_result dictionaries log_analysis is called with.
AnalysisResults ==
    {[decision_state |-> "allow", mode |-> ""],
     [decision_state |-> "", mode |-> "Block"]}

\* DataLogger._new_id: f"{prefix}_{uuid4().hex[:12]}"
NewIds(prefix) ==
    LET \* The values uuid4().hex[:12] takes: few, so that two calls can draw one id.
        UuidHex == {"0", "1"}
    IN
    {<<prefix, "_", u>> : u \in UuidHex}

LogOps == {"analysis", "feedback", "error"}

IdPrefix(op) ==
    CASE op = "analysis" -> "a" [] op = "feedback" -> "f" [] op = "error" -> "e"

----------------------------------------------------------------------------
(* The license envelope (c3_dashboard.py, capture_dashboard_preview.py).    *)
(* Here text is a sequence of ASCII codes and bytes are numbers 0..255, so  *)
(* that XOR, base64, hex, strip, lower and a flipped bit are computed.      *)
(* core.license_manager is not among the sources, so the import fails and   *)
(* LicenseManager is None: the functions below are the ones that run.       *)

\* ord(c) of a printable ASCII character
Code(c) ==
    LET upto95 == " !\"#$%&'()*+,-./0123456789:;<=>?@ABCDEFGHIJKLMNOPQRSTUVWXYZ[\\]^_"
        from97 == "abcdefghijklmnopqrstuvwxyz{|}~"
    IN  IF \E i \in 1..Len(upto95) : SubSeq(upto95, i, i) = c
        THEN 31 + CHOOSE i \in 1..Len(upto95) : SubSeq(upto95, i, i) = c
        ELSE 96 + CHOOSE i \in 1..Len(from97) : SubSeq(from97, i, i) = c

\* The codes of the characters of a text
Ord(s) == [i \in 1..Len(s) |-> Code(SubSeq(s, i, i))]

RECURSIVE XorBits(_, _, _)
\* a ^ b on the n low bits
XorBits(a, b, n) ==
    IF n = 0 THEN 0
    ELSE (((a % 2) + (b % 2)) % 2) + 2 * XorBits(a \div 2, b \div 2, n - 1)

\* A combination of two bytes that is not its own inverse.
XorByteAsMax(a, b) == IF a >= b THEN a ELSE b

\* a ^ b on bytes
XorByte(a, b) == XorBits(a, b, 8)

\* hashlib.sha256(data).digest(): a stand-in under which no two inputs
\* share a digest
Sha256(data) == [i \in 1..Len(data) |-> ((data[i] * 5) + 1) % 256]

\* str.encode("utf-8") of ASCII text: one byte per character, its code
Utf8Encode(s) == s

\* A key derivation that ignores the secret.
KdfKeyFixed(secret) == Sha256(Utf8Encode(<<>>))

\* _kdf_key
KdfKey(secret) == Sha256(Utf8Encode(secret))

\* _keystream; counter.to_bytes(8, "big") is seven zero bytes and the counter
Keystream(key, nonce, length) ==
    LET RECURSIVE Loop(_, _)
        Loop(out, counter) ==
            IF Len(out) >= length THEN SubSeq(out, 1, length)
            ELSE Loop(out \o Sha256(key \o nonce
                                      \o <<0, 0, 0, 0, 0, 0, 0, counter % 256>>),
                      counter + 1)
    IN  Loop(<<>>, 0)

\* _xor_stream
XorStream(raw, secret, nonce) ==
    LET key == KdfKey(secret)
        ks  == Keystream(key, nonce, Len(raw))
    IN  [i \in 1..Len(raw) |-> XorByte(raw[i], ks[i])]

\* hmac.new(key, msg, hashlib.sha256).digest(): a stand-in under which no
\* two pairs of key and message share a tag
HmacSha256(key, msg) == Sha256(<<Len(key)>> \o key \o msg)

\* bytes.hex(), hexdigest(): two lowercase hex digits per byte
Hex(b) ==
    LET HexDigit(n) == IF n < 10 THEN 48 + n ELSE 87 + n
    IN  [i \in 1..(2 * Len(b)) |->
            IF i % 2 = 1 THEN HexDigit(b[(i + 1) \div 2] \div 16)
            ELSE HexDigit(b[i \div 2] % 16)]

\* base64.b64encode; B64Char is the character of a 6-bit value
B64Encode(b) ==
    LET B64Char(v) ==
            IF v < 26 THEN 65 + v
            ELSE IF v < 52 THEN 97 + (v - 26)
            ELSE IF v < 62 THEN 48 + (v - 52)
            ELSE IF v = 62 THEN 43 ELSE 47
        RECURSIVE Enc(_)
        Enc(r) ==
            IF Len(r) = 0 THEN <<>>
            ELSE IF Len(r) = 1
            THEN <<B64Char(r[1] \div 4), B64Char((r[1] % 4) * 16), 61, 61>>
            ELSE IF Len(r) = 2
            THEN <<B64Char(r[1] \div 4),
                   B64Char(((r[1] % 4) * 16) + (r[2] \div 16)),
                   B64Char((r[2] % 16) * 4), 61>>
            ELSE <<B64Char(r[1] \div 4),
                   B64Char(((r[1] % 4) * 16) + (r[2] \div 16)),
                   B64Char(((r[2] % 16) * 4) + (r[3] \div 64)),
                   B64Char(r[3] % 64)>> \o Enc(SubSeq(r, 4, Len(r)))
    IN  Enc(b)

\* base64.b64decode(s): the bytes, or binascii.Error. It is
\* binascii.a2b_base64 without strict mode: characters outside the alphabet
\* are skipped, padding ends the data once a quad is complete, bits left over
\* in the last character are dropped, an incomplete quad is an error.
\* B64Value is the 6-bit value of a character, 64 outside the alphabet.
B64Decode(s) ==
    LET B64Value(c) ==
            IF c >= 65 /\ c <= 90 THEN c - 65
            ELSE IF c >= 97 /\ c <= 122 THEN c - 97 + 26
            ELSE IF c >= 48 /\ c <= 57 THEN c - 48 + 52
            ELSE IF c = 43 THEN 62
            ELSE IF c = 47 THEN 63 ELSE 64
        RECURSIVE Loop(_, _, _, _, _)
        Loop(i, quad_pos, leftchar, pads, out) ==
            IF i > Len(s)
            THEN IF quad_pos # 0
                 THEN [ok |-> FALSE, bytes |-> <<>>,
                       err |-> IF quad_pos = 1
                               THEN "Invalid base64-encoded string"
                               ELSE "Incorrect padding"]
                 ELSE [ok |-> TRUE, bytes |-> out, err |-> "none"]
            ELSE IF s[i] = 61
            THEN IF quad_pos >= 2 /\ quad_pos + pads + 1 >= 4
                 THEN [ok |-> TRUE, bytes |-> out, err |-> "none"]
                 ELSE Loop(i + 1, quad_pos, leftchar,
                           IF quad_pos >= 2 THEN pads + 1 ELSE pads, out)
            ELSE IF B64Value(s[i]) >= 64
            THEN Loop(i + 1, quad_pos, leftchar, pads, out)
            ELSE LET v == B64Value(s[i])
                 IN  CASE quad_pos = 0 -> Loop(i + 1, 1, v, 0, out)
                       [] quad_pos = 1 ->
                            Loop(i + 1, 2, v % 16, 0,
                                 Append(out, (leftchar * 4) + (v \div 16)))
                       [] quad_pos = 2 ->
                            Loop(i + 1, 3, v % 4, 0,
                                 Append(out, (leftchar * 16) + (v \div 4)))
                       [] quad_pos = 3 ->
                            Loop(i + 1, 0, 0, 0,
                                 Append(out, (leftchar * 64) + v))
    IN  Loop(1, 0, 0, 0, <<>>)

\* str.strip() on codes; IsSpace holds of the characters it removes
StripCodes(s) ==
    LET IsSpace(c) == c \in {9, 10, 11, 12, 13, 28, 29, 30, 31, 32}
        RECURSIVE LStripCodes(_)
        LStripCodes(r) ==
            IF r # <<>> /\ IsSpace(Head(r)) THEN LStripCodes(Tail(r)) ELSE r
        RECURSIVE RStripCodes(_)
        RStripCodes(r) ==
            IF r # <<>> /\ IsSpace(r[Len(r)])
            THEN RStripCodes(SubSeq(r, 1, Len(r) - 1)) ELSE r
    IN  LStripCodes(RStripCodes(s))

\* str.lower() on codes
LowerCodes(s) ==
    [i \in 1..Len(s) |-> IF s[i] >= 65 /\ s[i] <= 90 THEN s[i] + 32 ELSE s[i]]

\* A comparison that accepts every signature.
CompareDigestAlways(a, b) == TRUE

\* hmac.compare_digest
CompareDigest(a, b) == a = b

(* JSON values: an object of scalar members, a string or an integer. *)

JsonInt(n) == [kind |-> "int", num |-> n, text |-> <<>>, members |-> <<>>]

JsonStr(s) == [kind |-> "str", num |-> 0, text |-> s, members |-> <<>>]

JsonObj(ms) == [kind |-> "obj", num |-> 0, text |-> <<>>, members |-> ms]

\* json.dumps(v, ensure_ascii=False, separators=(",", ":")); the strings of
\* the model need no escape, StrCodes is str(n) of a natural number
JsonDumps(v) ==
    LET RECURSIVE StrCodes(_)
        StrCodes(n) ==
            IF n < 10 THEN <<48 + n>>
            ELSE StrCodes(n \div 10) \o <<48 + (n % 10)>>
        DumpsScalar(x) ==
            IF x.kind = "int" THEN StrCodes(x.num)
            ELSE <<Code("\"")>> \o x.text \o <<Code("\"")>>
        RECURSIVE DumpsMembers(_)
        DumpsMembers(ms) ==
            IF ms = <<>> THEN <<>>
            ELSE LET m == Head(ms)
                     one == <<Code("\"")>> \o m.key
                               \o <<Code("\""), Code(":")>>
                               \o DumpsScalar(m.val)
                 IN  IF Len(ms) = 1 THEN one
                     ELSE one \o <<Code(",")>> \o DumpsMembers(Tail(ms))
    IN  IF v.kind = "obj"
        THEN <<Code("{")>> \o DumpsMembers(v.members) \o <<Code("}")>>
        ELSE DumpsScalar(v)

\* The license payloads of the model: JSON objects.
Payloads ==
    {JsonObj(<<>>),
     JsonObj(<<[key |-> <<Code("q")>>, val |-> JsonInt(5)]>>),
     JsonObj(<<[key |-> <<Code("t")>>, val |-> JsonStr(<<Code("A")>>)]>>),
     JsonObj(<<[key |-> <<Code("t")>>, val |-> JsonStr(<<Code("Z")>>)],
               [key |-> <<Code("q")>>, val |-> JsonInt(10)]>>)}

\* json.loads(text): the value whose text it is, or JSONDecodeError; the
\* values are the payloads, an integer and a string
JsonLoads(text) ==
    LET JsonValues == Payloads \cup {JsonInt(5), JsonStr(<<Code("A")>>)}
    IN  IF \E v \in JsonValues : JsonDumps(v) = text
        THEN [ok |-> TRUE,
              value |-> CHOOSE v \in JsonValues : JsonDumps(v) = text]
        ELSE [ok |-> FALSE, value |-> JsonInt(0)]

\* The license keys (LICENSE_KEY) of the model.
Secrets == {<<Code("k")>>, <<Code("k"), Code("z")>>}

\* len(os.urandom(16))
NonceLen == 16

\* c3_dashboard._encrypt_payload
EncryptPayload(payload, secret, nonce) ==
    LET plain      == Utf8Encode(JsonDumps(payload))
        ciphertext == XorStream(plain, secret, nonce)
        digest     == Hex(HmacSha256(KdfKey(secret), nonce \o ciphertext))
    IN  [version |-> "1.0",
         nonce_b64 |-> B64Encode(nonce),
         ciphertext_b64 |-> B64Encode(ciphertext),
         signature_hex |-> digest]

\* capture_dashboard_preview._encrypt_payload, with its own _kdf and
\* _keystream
PreviewEncryptPayload(payload, secret, nonce) ==
    LET _kdf(sec) == Sha256(Utf8Encode(sec))
        _keystream(k, n, length) ==
            LET RECURSIVE Loop(_, _)
                Loop(out, counter) ==
                    IF Len(out) >= length THEN SubSeq(out, 1, length)
                    ELSE Loop(out \o Sha256(k \o n \o <<0, 0, 0, 0, 0, 0, 0,
                                                         counter % 256>>),
                              counter + 1)
            IN  Loop(<<>>, 0)
        plain      == Utf8Encode(JsonDumps(payload))
        key        == _kdf(secret)
        ks         == _keystream(key, nonce, Len(plain))
        ciphertext == [i \in 1..Len(plain) |-> XorByte(plain[i], ks[i])]
        sig        == Hex(HmacSha256(key, nonce \o ciphertext))
    IN  [version |-> "1.0",
         nonce_b64 |-> B64Encode(nonce),
         ciphertext_b64 |-> B64Encode(ciphertext),
         signature_hex |-> sig]

\* The outcome of _load_license_payload: (payload, status), and str(exc) of
\* the exception _decrypt_payload let out
LoadOk(payload) == [payload |-> payload, status |-> "ok", exc |-> "none"]

\* ({}, f"license_decrypt_failed:{exc}")
LoadFailed(exc) == [payload |-> JsonObj(<<>>), status |-> "license_decrypt_failed",
                    exc |-> exc]

----------------------------------------------------------------------------
(* The session guard of the dashboard (c3_dashboard._render_login, main) *)

\* os.environ of the dashboard process: the three limits are not set.
DashEnv ==
    [name \in {"C3_LOGIN_MAX_ATTEMPTS", "C3_LOCKOUT_SECONDS",
               "C3_SESSION_TTL_SECONDS"} |-> NULL]

\* _int_env: int(os.environ.get(name, str(default)).strip()), or default
IntEnv(name, default) ==
    LET raw == IF DashEnv[name] = NULL THEN Str(default) ELSE DashEnv[name]
    IN  SafeInt(Strip(raw), default)

DefaultMaxAttempts == 5

DefaultLockoutSeconds == 900

DefaultSessionTtlSeconds == 1800

max_attempts ==
    LET n == IntEnv("C3_LOGIN_MAX_ATTEMPTS", DefaultMaxAttempts)
    IN  IF n >= 1 THEN n ELSE 1

lockout_seconds ==
    LET n == IntEnv("C3_LOCKOUT_SECONDS", DefaultLockoutSeconds)
    IN  IF n >= 30 THEN n ELSE 30

session_ttl_seconds ==
    LET n == IntEnv("C3_SESSION_TTL_SECONDS", DefaultSessionTtlSeconds)
    IN  IF n >= 300 THEN n ELSE 300

\* C3_ADMIN_PASSWORD, and the passwords an operator types.
AdminPassword == "Adm1n#Passw0rd"

\* _verify_admin_secret with no C3_ADMIN_PASSWORD_HASH set
VerifyAdminSecret(candidate) == AdminPassword # "" /\ candidate = AdminPassword

\* st.session_state of a new session, read through .get with its defaults
SessInit ==
    [c3_authed |-> FALSE, c3_authed_at |-> 0, c3_failed_attempts |-> 0,
     c3_locked_until |-> 0]

\* time.time() when the session opens
WallInit == 1000

\* Seconds of wall time a behaviour covers.
MaxElapsed == 4600

\* A session whose expiry check never fires.
ExpireSessionNever(s, t) == s

\* The session re-check at the top of _render_login
ExpireSession(s, t) ==
    IF s.c3_authed /\ s.c3_authed_at > 0
          /\ t - s.c3_authed_at > session_ttl_seconds
    THEN [s EXCEPT !.c3_authed = FALSE, !.c3_authed_at = 0]
    ELSE s

\* A lockout that is never active.
LockoutActiveNever(s, t) == FALSE

\* if now < locked_until
LockoutActive(s, t) == t < s.c3_locked_until

\* A successful login that keeps the failure counter and the lockout.
AuthenticateKeepsLock(s, t) ==
    [s EXCEPT !.c3_authed = TRUE, !.c3_authed_at = t]

\* if _verify_admin_secret(pwd): the four assignments
Authenticate(s, t) ==
    [s EXCEPT !.c3_authed = TRUE, !.c3_authed_at = t,
              !.c3_failed_attempts = 0, !.c3_locked_until = 0]

\* A failed login that only counts.
FailedLoginNoLock(s, t) ==
    [s EXCEPT !.c3_failed_attempts = s.c3_failed_attempts + 1]

\* else: count the failure, lock at max_attempts
FailedLogin(s, t) ==
    LET failed == s.c3_failed_attempts + 1
    IN  IF failed >= max_attempts
        THEN [s EXCEPT !.c3_failed_attempts = 0,
                       !.c3_locked_until = t + lockout_seconds]
        ELSE [s EXCEPT !.c3_failed_attempts = failed]

\* A logout that leaves the session authenticated.
LogoutKeepsAuthed(s) == s

\* if st.button("Logout"): the two assignments
Logout(s) == [s EXCEPT !.c3_authed = FALSE, !.c3_authed_at = 0]

\* One run of _render_login on session s at time t.  submit: the run was
\* triggered by the form's Login button, with pwd typed.  Yields the session
\* it leaves, whether it returned to main (the protected page is rendered),
\* whether the login form was rendered, whether _verify_admin_secret was
\* called, and whether it ended in st.rerun().
RenderLogin(s, t, submit, pwd) ==
    LET s1 == ExpireSession(s, t)
    IN  IF s1.c3_authed
        THEN [sess |-> s1, returned |-> TRUE, form |-> FALSE,
              compared |-> FALSE, rerun |-> FALSE]
        ELSE IF LockoutActive(s1, t)
        THEN [sess |-> s1, returned |-> FALSE, form |-> FALSE,
              compared |-> FALSE, rerun |-> FALSE]
        ELSE IF ~submit
        THEN [sess |-> s1, returned |-> FALSE, form |-> TRUE,
              compared |-> FALSE, rerun |-> FALSE]
        ELSE IF VerifyAdminSecret(pwd)
        THEN [sess |-> Authenticate(s1, t), returned |-> FALSE,
              form |-> TRUE, compared |-> TRUE, rerun |-> TRUE]
        ELSE [sess |-> FailedLogin(s1, t), returned |-> FALSE,
              form |-> TRUE, compared |-> TRUE, rerun |-> FALSE]

----------------------------------------------------------------------------
(* The admin credential (c3_dashboard._password_policy_ok,                  *)
(* _verify_admin_secret and the head of _render_login)                      *)

\* str.split(sep) on codes
Split(s, sep) ==
    LET RECURSIVE Parts(_, _)
        Parts(rest, cur) ==
            IF rest = <<>> THEN <<cur>>
            ELSE IF Head(rest) = sep THEN <<cur>> \o Parts(Tail(rest), <<>>)
            ELSE Parts(Tail(rest), Append(cur, Head(rest)))
    IN  Parts(s, <<>>)

\* _pbkdf2_digest: hashlib.pbkdf2_hmac("sha256", secret, salt, iterations)
\* as hex, a stand-in under which no two triples share a digest
Pbkdf2Digest(secret, salt_raw, iterations) ==
    Hex(Sha256(<<iterations % 256, Len(salt_raw)>> \o salt_raw
                  \o Utf8Encode(secret)))

\* A verifier that falls back to the plaintext secret when the hash string
\* cannot be used.
VerifyAdminSecretFallsBack(env, candidate) ==
    LET plain == StripCodes(env.C3_ADMIN_PASSWORD)
    IN  [result |-> plain # <<>> /\ candidate = plain, exc |-> "none"]

\* _verify_admin_secret under os.environ = env: what it returns, or the
\* exception that leaves it.  int(text) takes surrounding blanks, a sign and
\* digits; pbkdf2_hmac raises ValueError on fewer than 1 iteration.
VerifyAdminSecretEnv(env, candidate) ==
    LET pwd_hash == StripCodes(env.C3_ADMIN_PASSWORD_HASH)
        plain    == StripCodes(env.C3_ADMIN_PASSWORD)
        parts    == Split(pwd_hash, Code("$"))
        IntOf(text) ==
            LET t      == StripCodes(text)
                signed == t # <<>> /\ Head(t) \in {Code("+"), Code("-")}
                digits == IF signed THEN Tail(t) ELSE t
                RECURSIVE Value(_)
                Value(d) == IF d = <<>> THEN 0
                            ELSE (10 * Value(SubSeq(d, 1, Len(d) - 1)))
                                    + (d[Len(d)] - 48)
            IN  IF digits = <<>>
                   \/ \E i \in 1..Len(digits) : digits[i] < 48 \/ digits[i] > 57
                THEN [ok |-> FALSE, value |-> 0]
                ELSE [ok |-> TRUE,
                      value |-> IF signed /\ Head(t) = Code("-")
                                THEN 0 - Value(digits) ELSE Value(digits)]
    IN  IF pwd_hash # <<>>
        THEN IF Len(parts) # 4 \/ parts[1] # Ord("pbkdf2_sha256")
             THEN [result |-> FALSE, exc |-> "none"]
             ELSE LET iterations == IntOf(parts[2])
                      salt_raw   == B64Decode(parts[3])
                      expected   == LowerCodes(StripCodes(parts[4]))
                  IN  IF ~iterations.ok \/ ~salt_raw.ok
                      THEN [result |-> FALSE, exc |-> "none"]
                      ELSE IF iterations.value < 1
                      THEN [result |-> FALSE, exc |-> "ValueError"]
                      ELSE [result |->
                                CompareDigest(
                                    Pbkdf2Digest(candidate, salt_raw.bytes,
                                                 iterations.value),
                                    expected),
                            exc |-> "none"]
        ELSE [result |-> plain # <<>> /\ CompareDigest(candidate, plain),
              exc |-> "none"]

\* The head of _render_login under os.environ = env: st.stop() with the
\* error shown, or on to the session guard.
RenderLoginHead(env) ==
    LET \* _password_policy_ok: (ok, reason), the rules in the order of the code
        PasswordPolicyOk(secret) ==
            LET Has(lo, hi) == \E i \in 1..Len(secret) : secret[i] >= lo /\ secret[i] <= hi
                alnum(c) == (c >= 65 /\ c <= 90) \/ (c >= 97 /\ c <= 122)
                               \/ (c >= 48 /\ c <= 57)
            IN  IF Len(secret) < 12 THEN [ok |-> FALSE, reason |-> "password_too_short"]
                ELSE IF ~Has(65, 90) THEN [ok |-> FALSE, reason |-> "missing_uppercase"]
                ELSE IF ~Has(97, 122) THEN [ok |-> FALSE, reason |-> "missing_lowercase"]
                ELSE IF ~Has(48, 57) THEN [ok |-> FALSE, reason |-> "missing_digit"]
                ELSE IF ~\E i \in 1..Len(secret) : ~alnum(secret[i])
                THEN [ok |-> FALSE, reason |-> "missing_symbol"]
                ELSE [ok |-> TRUE, reason |-> "ok"]
    IN
    LET admin_pwd  == StripCodes(env.C3_ADMIN_PASSWORD)
        admin_hash == StripCodes(env.C3_ADMIN_PASSWORD_HASH)
        policy     == PasswordPolicyOk(admin_pwd)
    IN  IF admin_pwd = <<>> /\ admin_hash = <<>>
        THEN [stopped |-> TRUE, error |-> "credential_required"]
        ELSE IF admin_pwd # <<>> /\ admin_hash = <<>> /\ ~policy.ok
        THEN [stopped |-> TRUE, error |-> policy.reason]
        ELSE [stopped |-> FALSE, error |-> "none"]

----------------------------------------------------------------------------
(* The signing key (DataLogger.__init__, c3_dashboard._signing_key)         *)

\* A constructor that does not look at the salt.
DataLoggerInitUnchecked(env) ==
    LET salt == StripCodes(env.LOG_SALT)
        key  == StripCodes(env.USAGE_SIGNING_KEY)
    IN  [constructed |-> TRUE, exc |-> "none", salt |-> salt,
         usage_signing_key |-> IF key # <<>> THEN key ELSE salt]

\* DataLogger.__init__ under os.environ = env: the logger's _salt and
\* _usage_signing_key, or the RuntimeError that leaves the constructor.
DataLoggerInit(env) ==
    LET salt == StripCodes(env.LOG_SALT)
        key  == StripCodes(env.USAGE_SIGNING_KEY)
    IN  IF salt = <<>>
        THEN [constructed |-> FALSE, exc |-> "RuntimeError", salt |-> salt,
              usage_signing_key |-> <<>>]
        ELSE [constructed |-> TRUE, exc |-> "none", salt |-> salt,
              usage_signing_key |-> IF key # <<>> THEN key ELSE salt]

----------------------------------------------------------------------------
(* The pricing row and the cost estimate (c3_dashboard._license_tier,       *)
(* _build_cost_estimate).  Dollar amounts of the results are counted in     *)
(* cents; the rates of the table are cents per 1000 events.                 *)

\* PRICING_TABLE
PRICING_TABLE ==
    [tier \in {"LITE", "PRO", "ENTERPRISE"} |->
        CASE tier = "LITE" ->
                [base_monthly_usd |-> 99, included_quota |-> 5000,
                 overage_per_1k_cents |-> 600]
          [] tier = "PRO" ->
                [base_monthly_usd |-> 499, included_quota |-> 50000,
                 overage_per_1k_cents |-> 300]
          [] tier = "ENTERPRISE" ->
                [base_monthly_usd |-> 1999, included_quota |-> 500000,
                 overage_per_1k_cents |-> 180]]

\* PRICING_TABLE.get(text, PRICING_TABLE["PRO"]) for a text given as codes
PricingRow(text) ==
    IF \E k \in DOMAIN PRICING_TABLE : Ord(k) = text
    THEN PRICING_TABLE[CHOOSE k \in DOMAIN PRICING_TABLE : Ord(k) = text]
    ELSE PRICING_TABLE["PRO"]

\* str.upper() on codes
UpperCodes(s) ==
    [i \in 1..Len(s) |-> IF s[i] >= 97 /\ s[i] <= 122 THEN s[i] - 32 ELSE s[i]]

\* A tier lookup that reads "tier" only.
LicenseTierNoPlan(payload) ==
    LET Has(key) == \E i \in 1..Len(payload.members) :
                       payload.members[i].key = Ord(key)
        Get(key) == payload.members[CHOOSE i \in 1..Len(payload.members) :
                                       payload.members[i].key = Ord(key)].val
        tier == IF Has("tier") /\ Get("tier").kind = "str"
                THEN UpperCodes(StripCodes(Get("tier").text)) ELSE Ord("PRO")
    IN  IF \E k \in DOMAIN PRICING_TABLE : Ord(k) = tier THEN tier
        ELSE Ord("PRO")

\* _license_tier: str(payload.get("tier", payload.get("plan", "PRO"))),
\* stripped and upper-cased, or "PRO" when that is no key of the table.
\* PyStr is str() of a JSON value: a string is itself, an integer its
\* decimal digits, a dictionary its repr.
LicenseTier(payload) ==
    LET Has(key) == \E i \in 1..Len(payload.members) :
                       payload.members[i].key = Ord(key)
        Get(key) == payload.members[CHOOSE i \in 1..Len(payload.members) :
                                       payload.members[i].key = Ord(key)].val
        RECURSIVE Digits(_)
        Digits(n) == IF n < 10 THEN <<48 + n>>
                     ELSE Append(Digits(n \div 10), 48 + (n % 10))
        RECURSIVE PyStr(_, _)
        PyStr(v, quoted) ==
            CASE v.kind = "str" ->
                    IF quoted THEN Ord("'") \o v.text \o Ord("'") ELSE v.text
              [] v.kind = "int" ->
                    IF v.num < 0 THEN Ord("-") \o Digits(0 - v.num)
                    ELSE Digits(v.num)
              [] v.kind = "obj" ->
                    LET RECURSIVE Items(_)
                        Items(i) ==
                            IF i > Len(v.members) THEN <<>>
                            ELSE (IF i > 1 THEN Ord(", ") ELSE <<>>)
                                    \o Ord("'") \o v.members[i].key
                                    \o Ord("': ")
                                    \o PyStr(v.members[i].val, TRUE)
                                    \o Items(i + 1)
                    IN  Ord("{") \o Items(1) \o Ord("}")
        value == IF Has("tier") THEN Get("tier")
                 ELSE IF Has("plan") THEN Get("plan")
                 ELSE JsonStr(Ord("PRO"))
        tier == UpperCodes(StripCodes(PyStr(value, FALSE)))
    IN  IF \E k \in DOMAIN PRICING_TABLE : Ord(k) = tier THEN tier
        ELSE Ord("PRO")

\* An estimate that knows the tier's included quota only.
BuildCostEstimateIncludedOnly(tier, usage_count, quota_limit) ==
    LET cfg     == PricingRow(UpperCodes(tier))
        overage == IF usage_count > cfg.included_quota
                   THEN usage_count - cfg.included_quota ELSE 0
        fee     == (overage * cfg.overage_per_1k_cents) \div 1000
    IN  {[base_monthly_usd |-> 100 * cfg.base_monthly_usd,
          included_quota |-> cfg.included_quota,
          overage_count |-> overage,
          overage_fee_usd |-> fee,
          projected_total_usd |-> (100 * cfg.base_monthly_usd) + fee,
          quota_progress |-> [num |-> 0, den |-> 1]]}

\* _build_cost_estimate: the dictionaries it can return.  The fee is a
\* double rounded to two places: the nearest cent, and when the exact fee
\* lies halfway between two cents the one the double product falls to,
\* which is either of them.  base + fee has two decimals at most, so the
\* second round() leaves the sum as it is.  quota_progress is the fraction
\* num/den.
BuildCostEstimate(tier, usage_count, quota_limit) ==
    LET cfg             == PricingRow(UpperCodes(tier))
        included_quota  == cfg.included_quota
        effective_quota == IF quota_limit >= included_quota THEN quota_limit
                           ELSE included_quota
        overage         == IF usage_count - effective_quota >= 0
                           THEN usage_count - effective_quota ELSE 0
        millicents      == overage * cfg.overage_per_1k_cents
        below           == millicents \div 1000
        fees            == IF millicents % 1000 < 500 THEN {below}
                           ELSE IF millicents % 1000 > 500 THEN {below + 1}
                           ELSE {below, below + 1}
    IN  {[base_monthly_usd |-> 100 * cfg.base_monthly_usd,
          included_quota |-> effective_quota,
          overage_count |-> overage,
          overage_fee_usd |-> fee,
          projected_total_usd |-> (100 * cfg.base_monthly_usd) + fee,
          quota_progress |->
              IF effective_quota <= 0 THEN [num |-> 0, den |-> 1]
              ELSE IF usage_count >= effective_quota THEN [num |-> 1, den |-> 1]
              ELSE [num |-> usage_count, den |-> effective_quota]] :
        fee \in fees}

----------------------------------------------------------------------------
(* The compliance export (c3_dashboard._export_scrub_log).  A ledger is the *)
(* sequence of the rows of usage_events in rowid order.                     *)

\* LIMIT 5000
ExportLimit == 5000

\* A query without ORDER BY and LIMIT.
SelectExportRowsUnlimited(ledger) ==
    {SelectSeq([i \in 1..Len(ledger) |-> i],
               LAMBDA i : ledger[i].event_type \in {"analysis", "error"})}

\* SELECT ... FROM usage_events WHERE event_type IN ('analysis', 'error')
\* ORDER BY ts_utc DESC LIMIT 5000: the rowid sequences the query can
\* return.  ts_utc is TEXT and compares code by code.  Rows of equal ts_utc
\* come in rowid order here; which of the rows tied at the limit are
\* returned is the engine's choice.
SelectExportRows(ledger) ==
    LET RECURSIVE Less(_, _)
        Less(a, b) ==
            IF b = <<>> THEN FALSE
            ELSE IF a = <<>> THEN TRUE
            ELSE IF Head(a) # Head(b) THEN Head(a) < Head(b)
            ELSE Less(Tail(a), Tail(b))
        rowids   == [i \in 1..Len(ledger) |-> i]
        Eligible(i) == ledger[i].event_type \in {"analysis", "error"}
        stamps   == {ledger[i].ts_utc : i \in {j \in 1..Len(ledger) : Eligible(j)}}
        Group(t) == SelectSeq(rowids,
                              LAMBDA i : Eligible(i) /\ ledger[i].ts_utc = t)
        RECURSIVE Take(_, _)
        Take(left, room) ==
            IF left = {} \/ room = 0 THEN {<<>>}
            ELSE LET newest == CHOOSE t \in left : \A u \in left : ~Less(t, u)
                     group  == Group(newest)
                 IN  IF Len(group) <= room
                     THEN {group \o rest :
                             rest \in Take(left \ {newest}, room - Len(group))}
                     ELSE {SelectSeq(group, LAMBDA i : i \in kept) :
                             kept \in {k \in SUBSET {group[n] : n \in 1..Len(group)} :
                                          Cardinality(k) = room}}
    IN  Take(stamps, ExportLimit)

\* _export_scrub_log: the payloads it can write, for the ledger read, the
\* api_version given and the value of _utc_now().  A nullable integer
\* column is <<>> or <<n>>; str(x or "") of a text column is the text.
ExportScrubLog(ledger, api_version, utc_now) ==
    LET Sha256Hex(prefix, event_id) ==
            Hex(Sha256(Utf8Encode(Ord(prefix) \o event_id)))
        SafeIntCol(v) == IF v = <<>> THEN 0 ELSE v[1]
        Record(row) ==
            [schema_version |-> Ord("1.0"),
             input_fp_sha256 |-> Sha256Hex("in:", row.event_id),
             input_length |-> 0,
             output_fp_sha256 |-> Sha256Hex("out:", row.event_id),
             output_length |-> 0,
             freq_type |-> Ord("Unknown"),
             mode |-> row.mode,
             scenario |-> Ord("compliance_export"),
             confidence |-> [final |-> 0, classifier |-> 0],
             metrics |->
                 [decision_state |-> IF row.decision_state = <<>>
                                     THEN Ord("ERROR") ELSE row.decision_state,
                  reason_code |-> row.reason_code,
                  latency_ms |-> SafeIntCol(row.latency_ms)],
             audit |-> [source |-> Ord("usage_db_export"),
                        event_id |-> row.event_id,
                        ts_utc |-> row.ts_utc],
             llm_used |-> SafeIntCol(row.llm_used) # 0,
             cache_hit |-> SafeIntCol(row.cache_hit) # 0,
             model |-> <<>>,
             usage |-> <<>>,
             output_source |-> Ord("usage_db_export"),
             api_version |-> api_version,
             pipeline_version_fingerprint |-> <<>>]
    IN  {[schema_version |-> Ord("1.0"),
          generated_at_utc |-> utc_now,
          record_count |-> Len(rows),
          content_free |-> TRUE,
          records |-> [n \in 1..Len(rows) |-> Record(ledger[rows[n]])]] :
         rows \in SelectExportRows(ledger)}

----------------------------------------------------------------------------
(* The content scrub (logger._scrub_dict_content_free)                      *)

\* _RISKY_TEXT_KEYS
RISKY_TEXT_KEYS ==
    {"text", "input_text", "original", "normalized", "repaired_text",
     "raw_ai_output", "llm_raw_response", "llm_raw_output", "prompt",
     "messages", "completion", "response_text"}

\* _RISKY_DERIVED_KEYS
RISKY_DERIVED_KEYS ==
    {"oos_matched", "matched", "matched_keywords", "matched_terms",
     "matched_phrases", "matched_patterns", "matched_rules", "lexicon_hits",
     "trigger_words", "trigger_terms", "hit_keywords", "hit_terms",
     "detected_keywords", "detected_terms", "detected_phrases", "keywords",
     "keyword_hits", "pattern_hits"}

\* _MAX_LIST_LEN, _MAX_STR_LEN, _MAX_DICT_KEYS
MAX_LIST_LEN == 80

MAX_STR_LEN == 600

MAX_DICT_KEYS == 120

\* _scrub_dict_content_free on a JSON value: in a dictionary the members
\* whose key, stripped and lower-cased (_k_norm), is a risky key are
\* dropped, the other values are scrubbed and then passed through
\* _scrub_value_if_too_large (Guard; Sensitive is
\* _looks_like_sensitive_key); the elements of a list are scrubbed and the
\* list cut to 80; any other value is returned as it is.  A list is a value
\* of kind "list" whose members have empty keys.
ScrubDictContentFree(obj) ==
    LET Norm(k) == LowerCodes(StripCodes(k))
        Risky(k) == \E r \in RISKY_TEXT_KEYS \cup RISKY_DERIVED_KEYS :
                       Ord(r) = Norm(k)
        Contains(k, s) == \E i \in 1..Len(k) :
                             /\ i + Len(s) - 1 <= Len(k)
                             /\ SubSeq(k, i, i + Len(s) - 1) = s
        Sensitive(k) ==
            /\ StripCodes(k) # <<>>
            /\ \E s \in {"text", "content", "message", "prompt", "completion",
                         "response", "utterance", "transcript", "input",
                         "output", "matched", "keyword", "trigger", "lexicon",
                         "pattern", "phrase"} :
                  Contains(LowerCodes(StripCodes(k)), Ord(s))
        RECURSIVE Less(_, _)
        Less(a, b) ==
            IF b = <<>> THEN FALSE
            ELSE IF a = <<>> THEN TRUE
            ELSE IF Head(a) # Head(b) THEN Head(a) < Head(b)
            ELSE Less(Tail(a), Tail(b))
        RECURSIVE Smallest(_, _, _)
        Smallest(ms, left, n) ==
            IF n = 0 \/ left = {} THEN <<>>
            ELSE LET first == CHOOSE i \in left :
                                 \A j \in left : ~Less(ms[j].key, ms[i].key)
                 IN  <<ms[first]>> \o Smallest(ms, left \ {first}, n - 1)
        Guard(key, value) ==
            CASE value.kind = "str" ->
                    [drop |-> Len(value.text) > MAX_STR_LEN /\ Sensitive(key),
                     value |-> value]
              [] value.kind = "list" ->
                    [drop |-> Len(value.members) > MAX_LIST_LEN
                                 /\ Sensitive(key),
                     value |->
                         IF Len(value.members) > MAX_LIST_LEN
                         THEN [value EXCEPT !.members =
                                  SubSeq(value.members, 1, MAX_LIST_LEN)]
                         ELSE value]
              [] value.kind = "obj" ->
                    [drop |-> Len(value.members) > MAX_DICT_KEYS
                                 /\ Sensitive(key),
                     value |->
                         IF Len(value.members) > MAX_DICT_KEYS
                         THEN [value EXCEPT !.members =
                                  Smallest(value.members,
                                           1..Len(value.members),
                                           MAX_DICT_KEYS)]
                         ELSE value]
              [] OTHER -> [drop |-> FALSE, value |-> value]
        RECURSIVE Scrub(_)
        Scrub(v) ==
            CASE v.kind = "obj" ->
                    LET RECURSIVE Out(_)
                        Out(ms) ==
                            IF ms = <<>> THEN <<>>
                            ELSE IF Risky(Head(ms).key) THEN Out(Tail(ms))
                            ELSE LET guarded == Guard(Norm(Head(ms).key),
                                                      Scrub(Head(ms).val))
                                 IN  IF guarded.drop THEN Out(Tail(ms))
                                     ELSE <<[key |-> Head(ms).key,
                                             val |-> guarded.value]>>
                                             \o Out(Tail(ms))
                    IN  [v EXCEPT !.members = Out(v.members)]
              [] v.kind = "list" ->
                    LET cleaned == [n \in 1..Len(v.members) |->
                                       [key |-> <<>>,
                                        val |-> Scrub(v.members[n].val)]]
                    IN  [v EXCEPT !.members =
                            IF Len(cleaned) > MAX_LIST_LEN
                            THEN SubSeq(cleaned, 1, MAX_LIST_LEN) ELSE cleaned]
              [] OTHER -> v
    IN  Scrub(obj)

\* log_analysis: the event payload it builds from input_text (given or
\* None), output_result and metadata, for a logger of the given salt.  The
\* values of input_fp_sha256 and input_length it reads from output_result
\* are a string and an integer when they are there.
AnalysisPayload(input_text, output_result, metadata, salt) ==
    LET Val(kind, num, text, members) ==
            [kind |-> kind, num |-> num, text |-> text, members |-> members]
        None == Val("null", 0, <<>>, <<>>)
        Bool(b) == Val("bool", IF b THEN 1 ELSE 0, <<>>, <<>>)
        Member(key, val) == [key |-> Ord(key), val |-> val]
        Has(d, key) == \E i \in 1..Len(d.members) : d.members[i].key = Ord(key)
        Get(d, key) ==
            IF d.kind = "obj" /\ Has(d, key)
            THEN d.members[CHOOSE i \in 1..Len(d.members) :
                              d.members[i].key = Ord(key)].val
            ELSE None
        in_len == IF input_text.kind = "null" THEN Get(output_result, "input_length")
                  ELSE JsonInt(Len(input_text.text))
        in_fp  == IF input_text.kind = "null"
                  THEN Get(output_result, "input_fp_sha256")
                  ELSE JsonStr(Hex(Sha256(Utf8Encode(salt \o input_text.text))))
        base_obj    == IF output_result.kind = "obj" THEN output_result
                       ELSE JsonObj(<<>>)
        safe_result == ScrubDictContentFree(base_obj)
        falsy(v) == \/ v.kind = "null"
                    \/ v.kind \in {"obj", "list"} /\ v.members = <<>>
                    \/ v.kind = "str" /\ v.text = <<>>
                    \/ v.kind \in {"int", "bool"} /\ v.num = 0
    IN  JsonObj(<<
            Member("id", JsonStr(Ord("a_0"))),
            Member("timestamp", JsonStr(Ord("t0"))),
            Member("type", JsonStr(Ord("analysis"))),
            Member("input", JsonObj(<<
                Member("fp_sha256",
                       IF in_fp.kind = "null" THEN JsonStr(<<>>) ELSE in_fp),
                Member("length", in_len),
                Member("fingerprint_salted", Bool(salt # <<>>)),
                Member("input_text_provided", Bool(input_text.kind # "null"))>>)),
            Member("evidence", safe_result),
            Member("metadata", IF falsy(metadata) THEN JsonObj(<<>>) ELSE metadata),
            Member("runtime", JsonObj(<<
                Member("source", JsonStr(Ord("hf_space"))),
                Member("logger_mode",
                       JsonStr(Ord("enterprise_audit_content_free")))>>))>>)

----------------------------------------------------------------------------
(* Initial state: a DataLogger constructed over an empty usage_dir *)

LocInit ==
    [op |-> "none", event_id |-> NULL, decision |-> "none",
     now_month |-> NULL, to_finalize |-> NULL,
     a_ts |-> NULL, month_key |-> NULL, day_key |-> NULL,
     total_events |-> 0, counter |-> 0, hb_sig |-> NULL,
     em_cause |-> "none", em_month |-> NULL, counts |-> NULL,
     decisions |-> NULL, signature |-> NULL]

NoFile == <<"NOFILE">>

\* _init_usage_db on an empty store: only active_month gets a row
Init ==
    LET \* No run of the script yet: the browser shows nothing.
        RunInit ==
            [kind |-> "none", at |-> 0, pwd |-> "", before |-> SessInit,
             compared |-> FALSE, served |-> FALSE, page |-> FALSE, form |-> FALSE,
             streak |-> 0]
    IN
    LET \* No envelope written, no decrypt under way.
        LicInit ==
            [pc |-> "none", producer |-> "none", payload |-> JsonObj(<<>>),
             secret |-> <<>>, envelope |-> [version |-> "1.0", nonce_b64 |-> <<>>,
                                            ciphertext_b64 |-> <<>>,
                                            signature_hex |-> <<>>],
             sealed |-> [version |-> "1.0", nonce_b64 |-> <<>>,
                         ciphertext_b64 |-> <<>>, signature_hex |-> <<>>],
             flipped |-> "none",
             key |-> <<>>, nonce |-> <<>>, ciphertext |-> <<>>, sig_hex |-> <<>>,
             expected |-> <<>>, compared |-> FALSE, xored |-> FALSE, plain |-> <<>>,
             outcome |-> LoadOk(JsonObj(<<>>))]
    IN
    LET \* No license file and no backup of one.
        NoFiles ==
            [file |-> [exists |-> FALSE, bytes |-> <<>>],
             backups |-> [s \in 1..2 |-> [exists |-> FALSE, bytes |-> <<>>]]]
    IN
    LET \* No logger constructed, nothing signed.
        BootInit ==
            [pc |-> "none",
             env |-> [USAGE_SIGNING_KEY |-> <<>>, LOG_SALT |-> <<>>],
             logger |-> [constructed |-> FALSE, exc |-> "none", salt |-> <<>>,
                         usage_signing_key |-> <<>>],
             exc |-> "none",
             signed |-> {}]
    IN
    /\ now = 0
    /\ events = <<>>
    /\ meta = [k \in MetaKeys |->
                  IF k = "active_month" THEN MonthKey(now) ELSE NULL]
    /\ usage_lock = NoThread
    /\ pc = [t \in Threads |-> "idle"]
    /\ loc = [t \in Threads |-> LocInit]
    /\ files = [m \in MonthKeys |-> [summary |-> NoFile, sig |-> NoFile]]
    /\ outcomes = {}
    /\ ncalls = 0
    /\ ndone = 0
    /\ nok = 0
    /\ finalLog = [m \in MonthKeys |-> [n |-> 0, active |-> {}]]
    /\ emitted = [m \in MonthKeys |-> <<>>]
    /\ tamper = [kind |-> "none"]
    /\ lic = LicInit
    /\ sess = SessInit
    /\ run = RunInit
    /\ wall = WallInit
    /\ call = [busy |-> "none", boot |-> BootInit,
               bill |-> [payload |-> JsonObj(<<>>), usage_count |-> 0,
                         quota_limit |-> 0, tier |-> <<>>,
                         cost |-> [base_monthly_usd |-> 0,
                                   included_quota |-> 0, overage_count |-> 0,
                                   overage_fee_usd |-> 0,
                                   projected_total_usd |-> 0,
                                   quota_progress |-> [num |-> 0, den |-> 1]]],
               exp |-> [ledger |-> <<>>,
                        payload |-> [schema_version |-> <<>>,
                                     generated_at_utc |-> <<>>,
                                     record_count |-> 0,
                                     content_free |-> FALSE,
                                     records |-> <<>>]],
               scrub |-> [input_text |-> JsonObj(<<>>),
                          output_result |-> JsonObj(<<>>),
                          metadata |-> JsonObj(<<>>),
                          handed |-> FALSE, event |-> JsonObj(<<>>)],
               trend |-> [today |-> 0, ledger |-> <<>>, rows |-> {}],
               upd |-> [n |-> 0,
                        before |-> NoFiles, fs |-> NoFiles,
                        uploaded_bytes |-> <<>>, license_key |-> <<>>,
                        stamp |-> 1, exc |-> "none",
                        payload |-> JsonInt(0)],
               gate |-> [pc |-> "none",
                         env |-> [C3_ADMIN_PASSWORD |-> <<>>,
                                  C3_ADMIN_PASSWORD_HASH |-> <<>>],
                         error |-> "none", candidate |-> <<>>,
                         verdict |-> [result |-> FALSE, exc |-> "none"]]]

----------------------------------------------------------------------------
(* The clock *)

\* Time passes.  Only a reading of the clock observes it, so the tick is
\* taken when some thread is about to read the clock.
Tick ==
    LET \* The positions whose next step reads the clock.
        ClockReaders == {"idle", "ru_lock", "em_sign", "ap_lock", "ap_read"}
    IN
    /\ now < MaxClock
    /\ \E t \in Threads : pc[t] \in ClockReaders /\ (pc[t] = "idle" => ncalls < MaxCalls)
    /\ now' = now + 1
    /\ UNCHANGED <<dashVars, call>>
    /\ UNCHANGED <<events, meta, usage_lock, pc, loc, files, outcomes,
                   ncalls, ndone, nok, finalLog, emitted, tamper>>

----------------------------------------------------------------------------
(* self._usage_lock *)

\* A lock that never blocks.
CanAcquireAlways(t) == TRUE

\* threading.Lock: acquire blocks while another thread holds it
CanAcquire(t) == usage_lock = NoThread

----------------------------------------------------------------------------
(* log_analysis, log_feedback, log_error_event: up to the month check *)

StartLog(t, op, decision) ==
    /\ pc[t] = "idle"
    /\ ncalls < MaxCalls
    /\ \E id \in NewIds(IdPrefix(op)) :
          loc' = [loc EXCEPT ![t] = [LocInit EXCEPT !.op = op,
                                        !.event_id = id,
                                        !.decision = decision]]
    /\ pc' = [pc EXCEPT ![t] = "ru_lock"]
    /\ ncalls' = ncalls + 1
    /\ UNCHANGED <<dashVars, call>>
    /\ UNCHANGED <<now, events, meta, usage_lock, files, outcomes, ndone,
                   nok, finalLog, emitted, tamper>>

LogAnalysis(t) ==
    \E r \in AnalysisResults : StartLog(t, "analysis", EventDecisionState(r))

LogFeedback(t) == StartLog(t, "feedback", "FEEDBACK")

LogErrorEvent(t) == StartLog(t, "error", "ERROR")

\* What the caller of a logging operation gets: its dictionary, or the
\* exception that left the operation.
EndLog(t, told, recorded) ==
    /\ outcomes' = outcomes \cup
                      {[op |-> loc[t].op, recorded |-> recorded, told |-> told]}
    /\ pc' = [pc EXCEPT ![t] = "idle"]
    /\ loc' = [loc EXCEPT ![t] = LocInit]

Raised == [keys |-> {}, status |-> "raised"]

----------------------------------------------------------------------------
(* _record_usage *)

\* with self._usage_lock: read now_month and active_month
RuEnter(t) ==
    /\ pc[t] = "ru_lock"
    /\ CanAcquire(t)
    /\ usage_lock' = t
    /\ LET now_month    == MonthKey(now)
           active_month == MetaGet(meta, "active_month", now_month)
       IN  loc' = [loc EXCEPT ![t].now_month = now_month,
                              ![t].to_finalize =
                                  IF active_month # now_month
                                  THEN active_month ELSE NULL]
    /\ pc' = [pc EXCEPT ![t] = "ru_write"]
    /\ UNCHANGED <<dashVars, call>>
    /\ UNCHANGED <<now, events, meta, files, outcomes, ncalls, ndone, nok,
                   finalLog, emitted, tamper>>

\* _meta_set(active_month), commit, leave the lock
RuWrite(t) ==
    LET \* if to_finalize:
        Truthy(v) == v # NULL /\ v # <<>>
    IN
    /\ pc[t] = "ru_write"
    /\ meta' = MetaSet(meta, "active_month", loc[t].now_month)
    /\ usage_lock' = NoThread
    /\ IF Truthy(loc[t].to_finalize)
       THEN /\ pc' = [pc EXCEPT ![t] = "em_counts"]
            /\ loc' = [loc EXCEPT ![t].em_cause = "rollover",
                                  ![t].em_month = Strip(loc[t].to_finalize),
                                  ![t].now_month = NULL,
                                  ![t].to_finalize = NULL]
       ELSE /\ pc' = [pc EXCEPT ![t] = "ap_lock"]
            /\ loc' = [loc EXCEPT ![t].now_month = NULL,
                                  ![t].to_finalize = NULL]
    /\ UNCHANGED <<dashVars, call>>
    /\ UNCHANGED <<now, events, files, outcomes, ncalls, ndone, nok,
                   finalLog, emitted, tamper>>

\* The store fails inside the month check: nothing is committed, the lock is
\* left, and the exception reaches the caller of the logging operation.
RuRaise(t) ==
    /\ pc[t] = "ru_write"
    /\ usage_lock' = NoThread
    /\ EndLog(t, Raised, FALSE)
    /\ UNCHANGED <<dashVars, call>>
    /\ UNCHANGED <<now, events, meta, files, ncalls, ndone, nok, finalLog,
                   emitted, tamper>>

----------------------------------------------------------------------------
(* emit_signed_monthly_summary *)

\* A direct call, month given or defaulted to the current month.
EmitCall(t) ==
    /\ pc[t] = "idle"
    /\ ncalls < MaxCalls
    /\ \E month \in MonthKeys \cup {NULL} :
          loc' = [loc EXCEPT ![t] =
                     [LocInit EXCEPT !.op = "emit", !.em_cause = "direct",
                         !.em_month = Strip(IF month # NULL THEN month
                                            ELSE MonthKey(now))]]
    /\ pc' = [pc EXCEPT ![t] = "em_counts"]
    /\ ncalls' = ncalls + 1
    /\ UNCHANGED <<dashVars, call>>
    /\ UNCHANGED <<now, events, meta, usage_lock, files, outcomes, ndone,
                   nok, finalLog, emitted, tamper>>

\* counts = self._month_counts(month_key)
EmCounts(t) ==
    /\ pc[t] = "em_counts"
    /\ loc' = [loc EXCEPT ![t].counts = MonthCounts(events, loc[t].em_month)]
    /\ finalLog' =
          IF loc[t].em_cause = "rollover"
          THEN [finalLog EXCEPT
                   ![loc[t].em_month].n = @ + 1,
                   ![loc[t].em_month].active = @ \cup {meta["active_month"]}]
          ELSE finalLog
    /\ pc' = [pc EXCEPT ![t] = "em_decisions"]
    /\ UNCHANGED <<dashVars, call>>
    /\ UNCHANGED <<now, events, meta, usage_lock, files, outcomes, ncalls,
                   ndone, nok, emitted, tamper>>

\* decisions = self._month_decision_counts(month_key)
EmDecisions(t) ==
    /\ pc[t] = "em_decisions"
    /\ loc' = [loc EXCEPT ![t].decisions =
                              MonthDecisionCounts(events, loc[t].em_month)]
    /\ pc' = [pc EXCEPT ![t] = "em_sign"]
    /\ UNCHANGED <<dashVars, call>>
    /\ UNCHANGED <<now, events, meta, usage_lock, files, outcomes, ncalls,
                   ndone, nok, finalLog, emitted, tamper>>

\* heartbeat = self._heartbeat_status(); payload = {...}; _sign_payload;
\* json.dump(payload) to <month>.summary.json
EmWriteSummary(t) ==
    LET \* The summary dictionary.
        SummaryPayload(month_key, generated_at, counts, decisions, heartbeat) ==
            [schema_version |-> "1.0", month |-> month_key,
             generated_at_utc |-> generated_at, counts |-> counts,
             decision_counts |-> decisions, heartbeat |-> heartbeat,
             content_free |-> TRUE, signature_algorithm |-> "HMAC-SHA256"]
    IN
    /\ pc[t] = "em_sign"
    /\ LET payload == SummaryPayload(loc[t].em_month, UtcIso(now),
                                     loc[t].counts, loc[t].decisions,
                                     HeartbeatStatus(meta))
       IN  /\ loc' = [loc EXCEPT ![t].signature = SignPayload(payload)]
           /\ files' = [files EXCEPT ![loc[t].em_month].summary = payload]
    /\ pc' = [pc EXCEPT ![t] = "em_sig"]
    /\ UNCHANGED <<dashVars, call>>
    /\ UNCHANGED <<now, events, meta, usage_lock, outcomes, ncalls, ndone,
                   nok, finalLog, emitted, tamper>>

\* Where the thread goes when emit_signed_monthly_summary is over: back into
\* the logging operation, or back to the direct caller.
AfterEmit(t) ==
    IF loc[t].em_cause = "rollover"
    THEN /\ pc' = [pc EXCEPT ![t] = "ap_lock"]
         /\ loc' = [loc EXCEPT ![t].em_cause = "none", ![t].em_month = NULL,
                               ![t].counts = NULL, ![t].decisions = NULL,
                               ![t].signature = NULL]
    ELSE /\ pc' = [pc EXCEPT ![t] = "idle"]
         /\ loc' = [loc EXCEPT ![t] = LocInit]

\* write <month>.summary.sig, return the result dictionary
EmWriteSig(t) ==
    LET \* The last two entries of a history.
        LastTwo(h, e) == IF Len(h) = 2 THEN <<h[2], e>> ELSE Append(h, e)
    IN
    /\ pc[t] = "em_sig"
    /\ files' = [files EXCEPT ![loc[t].em_month].sig = loc[t].signature]
    /\ emitted' = [emitted EXCEPT ![loc[t].em_month] =
                      LastTwo(@, [signature |-> loc[t].signature,
                                  counts |-> loc[t].counts,
                                  nrows |-> Len(events)])]
    /\ AfterEmit(t)
    /\ UNCHANGED <<dashVars, call>>
    /\ UNCHANGED <<now, events, meta, usage_lock, outcomes, ncalls, ndone,
                   nok, finalLog, tamper>>

\* open() raises on the summary or on the signature file; _record_usage
\* catches and prints it, a direct caller receives it.
EmRaise(t) ==
    /\ pc[t] \in {"em_sign", "em_sig"}
    /\ AfterEmit(t)
    /\ UNCHANGED <<dashVars, call>>
    /\ UNCHANGED <<now, events, meta, usage_lock, files, outcomes, ncalls,
                   ndone, nok, finalLog, emitted, tamper>>

----------------------------------------------------------------------------
(* _append_usage_event *)

\* with self._usage_lock: conn = self._db_connect(); ts = _utc_iso()
ApEnter(t) ==
    /\ pc[t] = "ap_lock"
    /\ CanAcquire(t)
    /\ usage_lock' = t
    /\ loc' = [loc EXCEPT ![t].a_ts = UtcIso(now)]
    /\ pc' = [pc EXCEPT ![t] = "ap_read"]
    /\ UNCHANGED <<dashVars, call>>
    /\ UNCHANGED <<now, events, meta, files, outcomes, ncalls, ndone, nok,
                   finalLog, emitted, tamper>>

\* self._db_connect() raises: the lock is left and the exception reaches the
\* caller of the logging operation.
ApRaise(t) ==
    /\ pc[t] = "ap_lock"
    /\ CanAcquire(t)
    /\ EndLog(t, Raised, FALSE)
    /\ UNCHANGED <<dashVars, call>>
    /\ UNCHANGED <<now, events, meta, usage_lock, files, ncalls, ndone, nok,
                   finalLog, emitted, tamper>>

\* month_key, day_key = _utc_dates(); read and increment both counters; sign
ApRead(t) ==
    LET \* What a SELECT on the connection of txn x sees of usage_meta.
        ConnMeta(m, x) == Commit([events |-> <<>>, meta |-> m], x).meta
    IN
    /\ pc[t] = "ap_read"
    /\ LET seen         == ConnMeta(meta, NoTxn)
           total_events == MetaGetInt(seen, "total_events", 0) + 1
           counter      == MetaGetInt(seen, "heartbeat_counter", 0) + 1
       IN  loc' = [loc EXCEPT
                      ![t].month_key = UtcDates(now)[1],
                      ![t].day_key = UtcDates(now)[2],
                      ![t].total_events = total_events,
                      ![t].counter = counter,
                      ![t].hb_sig = HeartbeatSignature(total_events, counter,
                                        loc[t].event_id, loc[t].a_ts)]
    /\ pc' = [pc EXCEPT ![t] = "ap_write"]
    /\ UNCHANGED <<dashVars, call>>
    /\ UNCHANGED <<now, events, meta, usage_lock, files, outcomes, ncalls,
                   ndone, nok, finalLog, emitted, tamper>>

\* The row of the INSERT.  The callers pass event_type and decision_state as
\* strings, never None, so _safe_str leaves them as they are.
NewRow(l) ==
    [event_id |-> l.event_id, event_type |-> l.op,
     ts_utc |-> l.a_ts, month |-> l.month_key, day |-> l.day_key,
     decision_state |-> UpperWord(l.decision),
     heartbeat_counter |-> l.counter, heartbeat_sig |-> l.hb_sig]

\* The five _meta_set calls with the counter as read, not incremented.
MetaWritesStaleCounter(l) ==
    << <<"total_events", Str(l.total_events)>>,
       <<"heartbeat_counter", Str(l.counter - 1)>>,
       <<"last_event_id", l.event_id>>,
       <<"last_event_ts", l.a_ts>>,
       <<"last_heartbeat_sig", l.hb_sig>> >>

\* The five _meta_set calls, in the order of the code.
MetaWrites(l) ==
    << <<"total_events", Str(l.total_events)>>,
       <<"heartbeat_counter", Str(l.counter)>>,
       <<"last_event_id", l.event_id>>,
       <<"last_event_ts", l.a_ts>>,
       <<"last_heartbeat_sig", l.hb_sig>> >>

RECURSIVE ApplyWrites(_, _, _)
\* The first k upserts of ws, pending on the connection.
ApplyWrites(x, ws, k) ==
    IF k = 0 THEN x
    ELSE LET y == ApplyWrites(x, ws, k - 1)
         IN  [y EXCEPT !.meta = MetaSet(y.meta, ws[k][1], ws[k][2])]

\* The INSERT, pending on the connection.
Inserted(x, row) == [x EXCEPT !.rows = Append(x.rows, row)]

\* return {...} of the logging operation: the same dictionary whether or not
\* the append committed
LogReturn(t, recorded) ==
    LET \* What a returned dictionary tells beyond the call's own id and timestamp.
        Told(result) ==
            [keys   |-> DOMAIN result,
             status |-> IF "status" \in DOMAIN result THEN result.status ELSE "absent"]
    IN
    LET \* The dictionary a logging operation returns.
        LogResult(op, event_id, ts) ==
            CASE op = "analysis" -> [timestamp |-> event_id, created_at |-> ts]
              [] op = "feedback" ->
                    [status |-> "ok", feedback_id |-> event_id, created_at |-> ts]
              [] op = "error" ->
                    [status |-> "ok", error_event_id |-> event_id, created_at |-> ts]
    IN
    LET \* ts = _utc_iso() at the start of a logging operation.  It is only handed
        \* back to the caller as created_at, so the instant is left abstract.
        CreatedAt == <<"t", "s">>
    IN
    /\ EndLog(t, Told(LogResult(loc[t].op, loc[t].event_id, CreatedAt)),
              recorded)
    /\ ndone' = ndone + 1
    /\ nok' = IF recorded THEN nok + 1 ELSE nok

\* INSERT, the five _meta_set calls, conn.commit(), conn.close(), leave the
\* lock, return
ApWrite(t) ==
    /\ pc[t] = "ap_write"
    /\ ~EventIdTaken(events, NoTxn, loc[t].event_id)
    /\ LET x  == ApplyWrites(Inserted(NoTxn, NewRow(loc[t])),
                             MetaWrites(loc[t]), 5)
           db == Commit([events |-> events, meta |-> meta], x)
       IN  /\ events' = db.events
           /\ meta' = db.meta
    /\ usage_lock' = NoThread
    /\ LogReturn(t, TRUE)
    /\ UNCHANGED <<dashVars, call>>
    /\ UNCHANGED <<now, files, ncalls, finalLog, emitted, tamper>>

\* except Exception: conn.rollback(); print; finally conn.close(); leave the
\* lock; return.  x is what was pending on the connection when it raised.
ApExcept(t, x) ==
    /\ LET db == Rollback([events |-> events, meta |-> meta], x)
       IN  /\ events' = db.events
           /\ meta' = db.meta
    /\ usage_lock' = NoThread
    /\ LogReturn(t, FALSE)
    /\ UNCHANGED <<dashVars, call>>
    /\ UNCHANGED <<now, files, ncalls, finalLog, emitted, tamper>>

\* The INSERT violates UNIQUE(event_id).
ApDuplicate(t) ==
    /\ pc[t] = "ap_write"
    /\ EventIdTaken(events, NoTxn, loc[t].event_id)
    /\ ApExcept(t, NoTxn)

\* The store fails (sqlite3.OperationalError): in the INSERT, after the
\* INSERT and k of the five upserts, or in the commit.
ApStoreError(t) ==
    /\ pc[t] = "ap_write"
    /\ \/ ApExcept(t, NoTxn)
       \/ /\ ~EventIdTaken(events, NoTxn, loc[t].event_id)
          /\ \E k \in 0..5 :
                ApExcept(t, ApplyWrites(Inserted(NoTxn, NewRow(loc[t])),
                                        MetaWrites(loc[t]), k))

----------------------------------------------------------------------------
(* Specifications *)

\* A step of a logging operation.
LogStep(t) ==
    \/ LogAnalysis(t)
    \/ LogFeedback(t)
    \/ LogErrorEvent(t)
    \/ RuEnter(t)
    \/ RuWrite(t)
    \/ RuRaise(t)
    \/ EmCounts(t)
    \/ EmDecisions(t)
    \/ EmWriteSummary(t)
    \/ EmWriteSig(t)
    \/ EmRaise(t)
    \/ ApEnter(t)
    \/ ApRaise(t)
    \/ ApRead(t)
    \/ ApWrite(t)
    \/ ApDuplicate(t)
    \/ ApStoreError(t)

\* One thread calls the logger, emit_signed_monthly_summary included: every
\* call runs to its end before the next.
NextSeq == Tick \/ LogStep(1) \/ EmitCall(1)

SpecSeq == Init /\ [][NextSeq]_vars

\* The threads of the API server call the logging operations of one
\* DataLogger concurrently (nothing in the repository calls
\* emit_signed_monthly_summary but _record_usage).
NextConc == Tick \/ \E t \in Threads : LogStep(t)

SpecConc == Init /\ [][NextConc]_vars

\* The threads of one process call the logging operations and, directly,
\* emit_signed_monthly_summary of one DataLogger.
SpecEmit ==
    Init /\ [][Tick \/ \E t \in Threads : LogStep(t) \/ EmitCall(t)]_vars

\* log_analysis with any output_result: a dictionary with or without the keys
\* decision_state and mode, their values in any case and outside the known
\* words, or a value that is no dictionary.
LogAnalysisAny(t) ==
    LET DecisionWords == {"allow", "Guide", "BLOCK", "error", "feedback",
                          "Feedback", "FEEDBACK", "maybe", ""}
        ModeWords == {"Block", "Suggest", "Repair", "PASS", "No-Op", "noop",
                      "error", "Failed", "feedback", ""}
        OutputResults ==
            {[is_dict |-> FALSE, items |-> <<>>],
             [is_dict |-> TRUE, items |-> <<>>]}
            \cup {[is_dict |-> TRUE, items |-> [decision_state |-> d]] :
                      d \in DecisionWords}
            \cup {[is_dict |-> TRUE, items |-> [mode |-> m]] : m \in ModeWords}
            \cup {[is_dict |-> TRUE,
                   items |-> [decision_state |-> d, mode |-> m]] :
                      d \in DecisionWords, m \in ModeWords}
        \* base_obj = output_result if isinstance(output_result, dict) else {};
        \* the scrub keeps the keys decision_state and mode and their words
        SafeResult(o) == IF o.is_dict THEN o.items ELSE <<>>
    IN
    \E o \in OutputResults :
        StartLog(t, "analysis", EventDecisionState(SafeResult(o)))

\* One thread calls the logging operations, log_analysis with any result.
SpecResults == Init /\ [][Tick \/ LogAnalysisAny(1) \/ LogStep(1)]_vars

----------------------------------------------------------------------------
(* Out-of-band edits of the usage store.  The store is a file (usage.db,    *)
(* tables usage_events and usage_meta) that whoever can write the file can  *)
(* edit without going through the DataLogger.                               *)

\* UPDATE usage_events SET field = v on the last stored row
TamperLastRow ==
    LET \* The values an edit can put into a column of a usage_events row.
        RowValues(field) ==
            CASE field = "ts_utc" -> {UtcIso(t) : t \in 0..MaxClock}
              [] field = "event_id" ->
                    UNION {NewIds(IdPrefix(op)) : op \in LogOps} \cup {<<"x">>}
              [] field = "heartbeat_counter" -> 0..(MaxCalls + 1)
    IN
    /\ tamper.kind = "none"
    /\ events # <<>>
    /\ \E field \in {"ts_utc", "event_id", "heartbeat_counter"} :
       \E v \in RowValues(field) :
          /\ v # events[Len(events)][field]
          /\ events' = [events EXCEPT ![Len(events)][field] = v]
          /\ tamper' = [kind |-> "row", field |-> field]
    /\ UNCHANGED <<dashVars, call>>
    /\ UNCHANGED <<now, meta, usage_lock, pc, loc, files, outcomes, ncalls,
                   ndone, nok, finalLog, emitted>>

\* DELETE FROM usage_events of one stored row
DeleteRow ==
    LET \* The sequence without its i-th element.
        Without(seq, i) == SubSeq(seq, 1, i - 1) \o SubSeq(seq, i + 1, Len(seq))
    IN
    /\ tamper.kind \in {"none", "delete"}
    /\ events # <<>>
    /\ \E i \in 1..Len(events) : events' = Without(events, i)
    /\ tamper' = [kind |-> "delete", field |-> "row"]
    /\ UNCHANGED <<dashVars, call>>
    /\ UNCHANGED <<now, meta, usage_lock, pc, loc, files, outcomes, ncalls,
                   ndone, nok, finalLog, emitted>>

\* UPDATE usage_meta SET value = v on one of the five chain values
TamperMeta ==
    LET \* The values an edit can put into a usage_meta row.
        MetaValues(key) ==
            IF key \in {"total_events", "heartbeat_counter"}
            THEN UNION {{Str(n), <<"0">> \o Str(n), <<" ">> \o Str(n), <<"x">>} :
                           n \in 0..(MaxCalls + 1)}
            ELSE IF key = "last_event_id"
            THEN UNION {NewIds(IdPrefix(op)) : op \in LogOps} \cup {<<>>, <<"x">>}
            ELSE IF key = "last_event_ts"
            THEN {UtcIso(t) : t \in 0..MaxClock} \cup {<<>>}
            ELSE {<<>>, <<"x">>, Hmac(<<"x">>, <<"1", "|", "1", "|", "x", "|">>)}
    IN
    /\ tamper.kind = "none"
    /\ nok >= 1
    /\ \E key \in ChainKeys :
       \E v \in MetaValues(key) :
          /\ v # meta[key]
          /\ meta' = [meta EXCEPT ![key] = v]
          /\ tamper' = [kind |-> "meta", field |-> key]
    /\ UNCHANGED <<dashVars, call>>
    /\ UNCHANGED <<now, events, usage_lock, pc, loc, files, outcomes,
                   ncalls, ndone, nok, finalLog, emitted>>

\* One thread calls the logger until the store is edited out of band.
NextTamper ==
    \/ tamper.kind = "none" /\ NextSeq
    \/ TamperLastRow
    \/ DeleteRow
    \/ TamperMeta

SpecTamper == Init /\ [][NextTamper]_vars

----------------------------------------------------------------------------
(* The license envelope: writing it, a flipped bit, loading it *)

\* An envelope is written for a payload under a license key.
Seal(producer) ==
    LET \* The values os.urandom(16) takes in the model.
        Nonces == {[i \in 1..NonceLen |-> b] : b \in {0, 165}}
    IN
    /\ lic.pc = "none"
    /\ \E payload \in Payloads, secret \in Secrets, nonce \in Nonces :
          LET envelope ==
                  IF producer = "dashboard"
                  THEN EncryptPayload(payload, secret, nonce)
                  ELSE PreviewEncryptPayload(payload, secret, nonce)
          IN  lic' = [lic EXCEPT !.pc = "sealed", !.producer = producer,
                                 !.payload = payload, !.secret = secret,
                                 !.envelope = envelope, !.sealed = envelope]
    /\ UNCHANGED <<logVars, call, sess, run, wall>>

\* c3_dashboard._encrypt_payload
EncryptCall == Seal("dashboard")

\* capture_dashboard_preview._encrypt_payload
PreviewEncryptCall == Seal("preview")

\* One bit of the 7-bit code of one character of ciphertext_b64 or of
\* signature_hex changes in the license file.
FlipBit ==
    /\ lic.pc = "sealed"
    /\ lic.flipped = "none"
    /\ \E field \in {"ciphertext_b64", "signature_hex"} :
       \E i \in 1..Len(lic.envelope[field]) :
       \E b \in 0..6 :
          lic' = [lic EXCEPT !.envelope[field][i] = XorBits(@, 2 ^ b, 7),
                             !.flipped = field]
    /\ UNCHANGED <<logVars, call, sess, run, wall>>

\* _load_license_payload calls _decrypt_payload(envelope, license_key):
\* decode nonce and ciphertext, normalise the signature, compute the MAC
DecStart ==
    /\ lic.pc = "sealed"
    /\ \E license_key \in Secrets :
          LET n == B64Decode(lic.envelope.nonce_b64)
              c == B64Decode(lic.envelope.ciphertext_b64)
          IN  IF ~n.ok
              THEN lic' = [lic EXCEPT !.pc = "done", !.key = license_key,
                                      !.outcome = LoadFailed(n.err)]
              ELSE IF ~c.ok
              THEN lic' = [lic EXCEPT !.pc = "done", !.key = license_key,
                                      !.outcome = LoadFailed(c.err)]
              ELSE lic' = [lic EXCEPT
                      !.pc = "decoded", !.key = license_key,
                      !.nonce = n.bytes, !.ciphertext = c.bytes,
                      !.sig_hex =
                          LowerCodes(StripCodes(lic.envelope.signature_hex)),
                      !.expected =
                          LowerCodes(Hex(HmacSha256(KdfKey(license_key),
                                                    n.bytes \o c.bytes)))]
    /\ UNCHANGED <<logVars, call, sess, run, wall>>

\* if not hmac.compare_digest(expected, sig_hex): raise RuntimeError
DecCompare ==
    /\ lic.pc = "decoded"
    /\ IF CompareDigest(lic.expected, lic.sig_hex)
       THEN lic' = [lic EXCEPT !.pc = "verified", !.compared = TRUE]
       ELSE lic' = [lic EXCEPT !.pc = "done", !.compared = TRUE,
                               !.outcome = LoadFailed("signature_mismatch")]
    /\ UNCHANGED <<logVars, call, sess, run, wall>>

\* plain = _xor_stream(ciphertext, secret, nonce)
DecXor ==
    /\ lic.pc = "verified"
    /\ lic' = [lic EXCEPT !.pc = "plain", !.xored = TRUE,
                          !.plain = XorStream(lic.ciphertext, lic.key,
                                              lic.nonce)]
    /\ UNCHANGED <<logVars, call, sess, run, wall>>

\* return json.loads(plain.decode("utf-8")); _load_license_payload's
\* isinstance check and its except
DecLoads ==
    LET \* bytes.decode("utf-8") raises on a byte that is no ASCII character and
        \* starts no valid sequence
        Utf8Decodes(b) == \A i \in 1..Len(b) : b[i] < 128
    IN
    /\ lic.pc = "plain"
    /\ LET r == JsonLoads(lic.plain)
       IN  lic' = [lic EXCEPT
                      !.pc = "done",
                      !.outcome =
                          IF ~Utf8Decodes(lic.plain)
                          THEN LoadFailed("UnicodeDecodeError")
                          ELSE IF ~r.ok THEN LoadFailed("JSONDecodeError")
                          ELSE IF r.value.kind # "obj"
                          THEN [payload |-> JsonObj(<<>>),
                                status |-> "license_payload_not_dict",
                                exc |-> "none"]
                          ELSE LoadOk(r.value)]
    /\ UNCHANGED <<logVars, call, sess, run, wall>>

NextLicense ==
    \/ EncryptCall
    \/ PreviewEncryptCall
    \/ FlipBit
    \/ DecStart
    \/ DecCompare
    \/ DecXor
    \/ DecLoads

SpecLicense == Init /\ [][NextLicense]_vars

----------------------------------------------------------------------------
(* The session guard: runs of the dashboard script in one session *)

\* Wall time passes between two runs of the script: a pause up to, or just
\* past, one of the limits.
Pause ==
    /\ \E d \in {lockout_seconds - 1, lockout_seconds, session_ttl_seconds,
                 session_ttl_seconds + 1} :
          /\ wall + d <= WallInit + MaxElapsed
          /\ wall' = wall + d
    /\ UNCHANGED <<logVars, call, lic, sess, run>>

\* One run of main(), started by a page load (view), by the Login button
\* of the form (submit, with pwd typed) or by the Logout button (logout),
\* followed at once by the run st.rerun() asks for.
ScriptRun(kind, pwd) ==
    LET r1     == RenderLogin(sess, wall, kind = "submit", pwd)
        logout == r1.returned /\ kind = "logout"
        s2     == IF logout THEN Logout(r1.sess) ELSE r1.sess
        r2     == RenderLogin(s2, wall, FALSE, "")
        fin    == IF r1.rerun \/ logout THEN r2 ELSE r1
    IN  /\ sess' = fin.sess
        /\ run' = [kind |-> kind, at |-> wall, pwd |-> pwd, before |-> sess,
                   compared |-> r1.compared, served |-> r1.returned,
                   page |-> fin.returned, form |-> fin.form,
                   streak |-> IF ~r1.compared THEN run.streak
                              ELSE IF VerifyAdminSecret(pwd) THEN 0
                              ELSE run.streak + 1]
        /\ UNCHANGED <<logVars, call, lic, wall>>

\* The browser loads or reloads the page of the session.
View == ScriptRun("view", "")

\* The operator submits the login form that is on the screen.
Submit ==
    LET Candidates == {AdminPassword, "guess"}
    IN
    run.form /\ \E pwd \in Candidates : ScriptRun("submit", pwd)

\* The operator presses Logout on the protected page.
LogoutClick == run.page /\ ScriptRun("logout", "")

NextSession ==
    \/ Pause
    \/ View
    \/ Submit
    \/ LogoutClick

SpecSession == Init /\ [][NextSession]_vars

----------------------------------------------------------------------------
(* The admin credential: a dashboard process started under some            *)
(* configuration, its login page, the passwords tried on it                *)

\* The dashboard process starts with its environment set.
SetAdminEnv ==
    LET \* The values of C3_ADMIN_PASSWORD and C3_ADMIN_PASSWORD_HASH in the model;
        \* an unset variable reads as "".  The hash strings carry the digest of
        \* the strong password under salt "A" and 2 iterations.
        AdminEnvs ==
            LET strong == Ord("Adm1n#Passw0rd")
                digest == Pbkdf2Digest(strong, <<65>>, 2)
                hash(tag, iterations, salt, tail) ==
                    Ord(tag) \o Ord("$") \o Ord(iterations) \o Ord("$") \o Ord(salt)
                       \o tail
            IN  [C3_ADMIN_PASSWORD :
                    {Ord(""), Ord(" "), Ord("short1!"), Ord("abc"), Ord("Adm1n#Passw"),
                     Ord("aaaaaaaaaaaa"), Ord("adm1n#passw0rd"), Ord("ADM1N#PASSW0RD"),
                     Ord("Admin#Password"), Ord("Adm1nxPassw0rd"), strong,
                     Ord(" Adm1n#Passw0rd ")},
                 C3_ADMIN_PASSWORD_HASH :
                    {Ord(""),
                     hash("pbkdf2_sha256", "2", "QQ==", Ord("$") \o digest),
                     hash("pbkdf2_sha256", " 2", "QQ==", Ord("$ ") \o digest),
                     hash("pbkdf2_sha256", "2", "QQ==", <<>>),
                     hash("pbkdf2_sha256", "2", "QQ==",
                          Ord("$") \o digest \o Ord("$x")),
                     hash("pbkdf2_sha1", "2", "QQ==", Ord("$") \o digest),
                     hash("pbkdf2_sha256", "x", "QQ==", Ord("$") \o digest),
                     hash("pbkdf2_sha256", "", "QQ==", Ord("$") \o digest),
                     hash("pbkdf2_sha256", "2", "Q", Ord("$") \o digest),
                     hash("pbkdf2_sha256", "0", "QQ==", Ord("$") \o digest)}]
    IN
    /\ call.gate.pc = "none"
    /\ \E env \in AdminEnvs :
          call' = [call EXCEPT !.gate.pc = "configured", !.gate.env = env]
    /\ UNCHANGED <<logVars, dashVars>>

\* A page load: main() calls _render_login, whose head stops the script or
\* lets it go on to the login form.
LoadLoginPage ==
    /\ call.gate.pc = "configured"
    /\ LET head == RenderLoginHead(call.gate.env)
       IN  call' = [call EXCEPT
                       !.gate.pc = IF head.stopped THEN "stopped" ELSE "form",
                       !.gate.error = head.error]
    /\ UNCHANGED <<logVars, dashVars>>

\* The form is submitted: the head runs again, then _verify_admin_secret(pwd).
LoginAttempt ==
    LET \* The passwords typed into the login form, as codes
        TypedSecrets == {Ord("Adm1n#Passw0rd"), Ord("short1!"), Ord("guess")}
    IN
    /\ call.gate.pc \in {"form", "answered"}
    /\ ~RenderLoginHead(call.gate.env).stopped
    /\ \E pwd \in TypedSecrets :
          call' = [call EXCEPT
                      !.gate.pc = "answered",
                      !.gate.candidate = pwd,
                      !.gate.verdict =
                          VerifyAdminSecretEnv(call.gate.env, pwd)]
    /\ UNCHANGED <<logVars, dashVars>>

NextGate ==
    \/ SetAdminEnv
    \/ LoadLoginPage
    \/ LoginAttempt

SpecGate == Init /\ [][NextGate]_vars

----------------------------------------------------------------------------
(* Functions called on their own: each behaviour makes the calls of one of  *)
(* them, call.busy names it                                                 *)

\* DataLogger(log_dir) in a process whose environment holds some values of
\* USAGE_SIGNING_KEY and LOG_SALT; an unset variable reads as "".
NewDataLogger ==
    /\ call.busy = "none"
    /\ \E key \in {Ord(""), Ord(" "), Ord("k1"), Ord(" k1 ")},
          salt \in {Ord(""), Ord("  "), Ord("s1"), Ord("s1 ")} :
          LET env == [USAGE_SIGNING_KEY |-> key, LOG_SALT |-> salt]
              made == DataLoggerInit(env)
          IN  call' = [call EXCEPT
                          !.busy = "boot",
                          !.boot.env = env,
                          !.boot.logger = made,
                          !.boot.pc = IF made.constructed THEN "constructed"
                                      ELSE "refused"]
    /\ UNCHANGED <<logVars, dashVars>>

\* _heartbeat_signature of an appended event, under self._usage_signing_key
SignHeartbeat ==
    /\ call.busy = "boot"
    /\ call.boot.logger.constructed
    /\ LET key == call.boot.logger.usage_signing_key
           sig == Hex(HmacSha256(Utf8Encode(key), Ord("1|1|a_0|t")))
       IN  call' = [call EXCEPT !.boot.signed =
                       @ \cup {[what |-> "heartbeat", key |-> key,
                                sig |-> sig]}]
    /\ UNCHANGED <<logVars, dashVars>>

\* _sign_payload of a monthly summary, under self._usage_signing_key
SignSummary ==
    /\ call.busy = "boot"
    /\ call.boot.logger.constructed
    /\ LET key == call.boot.logger.usage_signing_key
           sig == Hex(HmacSha256(Utf8Encode(key), Ord("{\"month\":\"m0\"}")))
       IN  call' = [call EXCEPT !.boot.signed =
                       @ \cup {[what |-> "summary", key |-> key,
                                sig |-> sig]}]
    /\ UNCHANGED <<logVars, dashVars>>

\* The dashboard, in a process of the same environment, is asked for the
\* evidence summary: _generate_evidence_summary_sig(..., _signing_key(), ...)
EvidenceSummarySig ==
    LET \* c3_dashboard._signing_key under os.environ = env
        SigningKey(env) ==
            LET key == StripCodes(env.USAGE_SIGNING_KEY)
            IN  IF key # <<>> THEN key ELSE StripCodes(env.LOG_SALT)
    IN
    /\ call.busy = "boot"
    /\ call.boot.exc = "none"
    /\ LET key == SigningKey(call.boot.env)
           sig == Hex(HmacSha256(Utf8Encode(key), Ord("{\"month\":\"m0\"}")))
       IN  IF key = <<>>
           THEN call' = [call EXCEPT !.boot.exc = "missing_signing_key"]
           ELSE call' = [call EXCEPT !.boot.signed =
                            @ \cup {[what |-> "evidence", key |-> key,
                                     sig |-> sig]}]
    /\ UNCHANGED <<logVars, dashVars>>

\* main(), the quota section: quota_limit = _safe_int(payload.get(
\* "quota_limit"), 0), tier = _license_tier(payload), cost =
\* _build_cost_estimate(tier, usage_count, quota_limit), for a decrypted
\* license payload and a count of the month's analysis events.
RenderQuota ==
    /\ call.busy = "none"
    /\ LET Member(key, val) == [key |-> Ord(key), val |-> val]
           tiers ==
               {<<>>,
                <<Member("tier", JsonStr(Ord("lite")))>>,
                <<Member("tier", JsonStr(Ord(" Pro ")))>>,
                <<Member("tier", JsonStr(Ord("ENTERPRISE")))>>,
                <<Member("tier", JsonStr(Ord("gold")))>>,
                <<Member("tier", JsonStr(Ord("")))>>,
                <<Member("tier", JsonInt(5))>>,
                <<Member("tier", JsonObj(<<>>))>>,
                <<Member("tier", JsonObj(<<Member("name", JsonStr(Ord("PRO")))>>))>>,
                <<Member("plan", JsonStr(Ord("lite")))>>,
                <<Member("plan", JsonStr(Ord("gold")))>>,
                <<Member("tier", JsonStr(Ord("pro"))),
                  Member("plan", JsonStr(Ord("lite")))>>}
           quotas ==
               {<<>>,
                <<Member("quota_limit", JsonInt(0))>>,
                <<Member("quota_limit", JsonInt(6000))>>,
                <<Member("quota_limit", JsonInt(60000))>>,
                <<Member("quota_limit", JsonStr(Ord(" 600000 ")))>>,
                <<Member("quota_limit", JsonStr(Ord("x")))>>}
           \* _safe_int(payload.get(key), 0): int(value), 0 on TypeError or
           \* ValueError
           SafeIntGet(payload, key) ==
               LET found == {i \in 1..Len(payload.members) :
                                payload.members[i].key = Ord(key)}
                   v     == payload.members[CHOOSE i \in found : TRUE].val
                   t     == StripCodes(v.text)
                   signed == t # <<>> /\ Head(t) \in {43, 45}
                   digits == IF signed THEN Tail(t) ELSE t
                   RECURSIVE Value(_)
                   Value(d) == IF d = <<>> THEN 0
                               ELSE (10 * Value(SubSeq(d, 1, Len(d) - 1)))
                                       + (d[Len(d)] - 48)
               IN  IF found = {} THEN 0
                   ELSE IF v.kind = "int" THEN v.num
                   ELSE IF v.kind # "str" \/ digits = <<>>
                           \/ \E i \in 1..Len(digits) :
                                 digits[i] < 48 \/ digits[i] > 57
                   THEN 0
                   ELSE IF signed /\ Head(t) = 45 THEN 0 - Value(digits)
                   ELSE Value(digits)
       IN  \E t \in tiers, q \in quotas,
              usage_count \in {0, 5005, 52500, 60025, 600000} :
              LET payload     == JsonObj(t \o q)
                  quota_limit == SafeIntGet(payload, "quota_limit")
                  tier        == LicenseTier(payload)
              IN  \E cost \in BuildCostEstimate(tier, usage_count, quota_limit) :
                     call' = [call EXCEPT
                                 !.busy = "quota",
                                 !.bill = [payload |-> payload,
                                           usage_count |-> usage_count,
                                           quota_limit |-> quota_limit,
                                           tier |-> tier,
                                           cost |-> cost]]
    /\ UNCHANGED <<logVars, dashVars>>

\* _build_cost_estimate(tier, usage_count, quota_limit) called with a tier
\* text of any kind
BuildCostEstimateCall ==
    /\ call.busy = "none"
    /\ \E tier \in {Ord("LITE"), Ord("PRO"), Ord("ENTERPRISE"), Ord("lite"),
                    Ord("Enterprise"), Ord("GOLD"), Ord(" PRO"), Ord("")},
          usage_count \in {0, 4999, 5001, 5005, 50025, 52500, 500025, 600000},
          quota_limit \in {0, 6000, 60000, 700000} :
          \E cost \in BuildCostEstimate(tier, usage_count, quota_limit) :
             call' = [call EXCEPT
                         !.busy = "estimate",
                         !.bill = [payload |-> JsonObj(<<>>),
                                   usage_count |-> usage_count,
                                   quota_limit |-> quota_limit,
                                   tier |-> tier,
                                   cost |-> cost]]
    /\ UNCHANGED <<logVars, dashVars>>

\* log_analysis(input_text, output_result, metadata) of a logger with salt
\* "s1": the payload is built and, when the writer is enabled, handed to
\* writer.write_event.  The usage ledger's part of the call is in
\* LogAnalysis and the steps after it.
LogAnalysisWrite ==
    /\ call.busy = "none"
    /\ LET Val(kind, num, text, members) ==
               [kind |-> kind, num |-> num, text |-> text, members |-> members]
           None == Val("null", 0, <<>>, <<>>)
           List(vs) == Val("list", 0, <<>>,
                           [n \in 1..Len(vs) |-> [key |-> <<>>, val |-> vs[n]]])
           Member(key, val) == [key |-> Ord(key), val |-> val]
           said == Ord("hi secret")
           long == JsonStr([i \in 1..(MAX_STR_LEN + 1) |-> 97])
           results ==
               {JsonObj(<<>>),
                JsonObj(<<Member("mode", JsonStr(Ord("live"))),
                          Member("decision_state", JsonStr(Ord("ALLOW")))>>),
                JsonObj(<<Member(" Text ", JsonStr(said)),
                          Member("mode", JsonStr(Ord("live")))>>),
                JsonObj(<<Member("details",
                                 JsonObj(<<Member("Matched",
                                                  List(<<JsonStr(Ord("hi"))>>)),
                                           Member("score", JsonInt(5))>>))>>),
                JsonObj(<<Member("items",
                                 List(<<JsonObj(<<Member("prompt", JsonStr(said)),
                                                  Member("n", JsonInt(1))>>)>>))>>),
                JsonObj(<<Member("echo", JsonStr(said))>>),
                JsonObj(<<Member("transcript", long),
                          Member("note", long)>>),
                JsonObj(<<Member("input_fp_sha256", JsonStr(Ord("ab12"))),
                          Member("input_length", JsonInt(9))>>),
                JsonInt(5)}
           metadatas ==
               {None,
                JsonObj(<<>>),
                JsonObj(<<Member("request_id", JsonStr(Ord("r1")))>>),
                JsonObj(<<Member("text", JsonStr(said))>>),
                JsonObj(<<Member("ctx",
                                 JsonObj(<<Member("Keywords",
                                                  List(<<JsonStr(Ord("hi"))>>))>>))>>)}
       IN  \E input_text \in {None, JsonStr(said)},
              output_result \in results, metadata \in metadatas,
              enabled \in BOOLEAN :
              call' = [call EXCEPT
                          !.busy = "log_analysis",
                          !.scrub = [input_text |-> input_text,
                                     output_result |-> output_result,
                                     metadata |-> metadata,
                                     handed |-> enabled,
                                     event |-> AnalysisPayload(
                                                  input_text, output_result,
                                                  metadata, Ord("s1"))]]
    /\ UNCHANGED <<logVars, dashVars>>

\* datetime.strftime("%Y%m%d") (dashed FALSE) and date.isoformat() (dashed
\* TRUE) of the day n days after 2025-01-01, as character codes; the years
\* 2025 to 2027 have 365 days
FormatDate(n, dashed) ==
    LET MonthDays == <<31, 28, 31, 30, 31, 30, 31, 31, 30, 31, 30, 31>>
        year == 2025 + (n \div 365)
        yday == n % 365
        RECURSIVE Before(_)
        Before(m) == IF m = 1 THEN 0 ELSE Before(m - 1) + MonthDays[m - 1]
        month == CHOOSE m \in 1..12 :
                    Before(m) <= yday /\ yday < Before(m) + MonthDays[m]
        day == (yday - Before(month)) + 1
        Digits(v, width) ==
            [i \in 1..width |-> 48 + ((v \div (10 ^ (width - i))) % 10)]
        sep == IF dashed THEN <<45>> ELSE <<>>
    IN  Digits(year, 4) \o sep \o Digits(month, 2) \o sep \o Digits(day, 2)

\* _fetch_decision_distribution_30d, _today_utc() being day today: the rows
\* of the GROUP BY day, decision_bucket
FetchDecisionDistribution30d(ledger, today) ==
    LET since == FormatDate(today - 29, TRUE)
        RECURSIVE TextLess(_, _)
        \* the order of TEXT values: byte by byte, a prefix first
        TextLess(a, b) ==
            IF b = <<>> THEN FALSE
            ELSE IF a = <<>> THEN TRUE
            ELSE IF a[1] # b[1] THEN a[1] < b[1]
            ELSE TextLess(Tail(a), Tail(b))
        Bucket(d) == IF d = "ALLOW" THEN "ALLOW"
                     ELSE IF d \in {"GUIDE", "BLOCK"} THEN "GUIDE"
                     ELSE "ERROR"
        sel == {i \in 1..Len(ledger) :
                   /\ ledger[i].event_type \in {"analysis", "error"}
                   /\ ~TextLess(ledger[i].day, since)}
        groups == {<<ledger[i].day, Bucket(ledger[i].decision_state)>> :
                      i \in sel}
    IN  {[day |-> g[1], decision_bucket |-> g[2],
          count |-> Cardinality(
                       {i \in sel : /\ ledger[i].day = g[1]
                                     /\ Bucket(ledger[i].decision_state) = g[2]})] :
            g \in groups}

\* The dashboard reads the 30-day distribution of a ledger of one or two
\* events that _append_usage_event wrote some days before today (written is
\* the day of the write, day the text _utc_dates gave it).
FetchDecisionDistribution30dCall ==
    /\ call.busy = "none"
    /\ LET Todays == {364, 374, 424}
           Ages   == {0, 29, 30, 45, 60}
           Kinds  == {<<"analysis", "ALLOW">>, <<"analysis", "BLOCK">>,
                      <<"error", "ERROR">>, <<"feedback", "FEEDBACK">>}
           Row(n, k) == [event_type |-> k[1], decision_state |-> k[2],
                         day |-> FormatDate(n, FALSE), written |-> n]
       IN  \E today \in Todays, len \in 1..2 :
           \E ages \in [1..len -> Ages], kinds \in [1..len -> Kinds] :
              /\ \A i \in 1..(len - 1) : ages[i] >= ages[i + 1]
              /\ LET ledger == [i \in 1..len |-> Row(today - ages[i], kinds[i])]
                 IN  call' = [call EXCEPT
                                 !.busy = "trend",
                                 !.trend =
                                     [today |-> today, ledger |-> ledger,
                                      rows |-> FetchDecisionDistribution30d(
                                                  ledger, today)]]
    /\ UNCHANGED <<logVars, dashVars>>

\* Updates of the license file in one behaviour.
MaxUpdates == 2

\* c3_dashboard._decrypt_payload as one call: the payload, or the exception
DecryptPayload(envelope, secret) ==
    LET n        == B64Decode(envelope.nonce_b64)
        c        == B64Decode(envelope.ciphertext_b64)
        sig_hex  == LowerCodes(StripCodes(envelope.signature_hex))
        expected == LowerCodes(Hex(HmacSha256(KdfKey(secret),
                                              n.bytes \o c.bytes)))
        plain    == XorStream(c.bytes, secret, n.bytes)
        r        == JsonLoads(plain)
        Failed(exc) == [ok |-> FALSE, exc |-> exc, value |-> JsonInt(0)]
    IN  IF ~n.ok THEN Failed(n.err)
        ELSE IF ~c.ok THEN Failed(c.err)
        ELSE IF ~CompareDigest(expected, sig_hex)
        THEN Failed("signature_mismatch")
        ELSE IF \E i \in 1..Len(plain) : plain[i] >= 128
        THEN Failed("UnicodeDecodeError")
        ELSE IF ~r.ok THEN Failed("JSONDecodeError")
        ELSE [ok |-> TRUE, exc |-> "none", value |-> r.value]

\* The license files an operator uploads: the text of an envelope of an
\* object or of a number under either license key, of one with a changed
\* signature and of one written a member per line with CR LF line ends;
\* and an empty file, a text that is no JSON, a JSON number.
Uploads ==
    LET nonce == [i \in 1..NonceLen |-> 165]
        Sealed(v, s) == EncryptPayload(v, s, nonce)
        BadSig(e) ==
            [e EXCEPT !.signature_hex[Len(e.signature_hex)] =
                          IF @ = 48 THEN 49 ELSE 48]
        object == JsonObj(<<[key |-> <<Code("q")>>, val |-> JsonInt(5)]>>)
        Text(envelope, nl) ==
            LET Member(key, val) ==
                    Ord("\"") \o Ord(key) \o Ord("\":\"") \o val \o Ord("\"")
            IN  Ord("{") \o nl
                   \o Member("version", Ord(envelope.version))
                   \o Ord(",") \o nl
                   \o Member("nonce_b64", envelope.nonce_b64)
                   \o Ord(",") \o nl
                   \o Member("ciphertext_b64", envelope.ciphertext_b64)
                   \o Ord(",") \o nl
                   \o Member("signature_hex", envelope.signature_hex)
                   \o nl \o Ord("}")
        File(envelope, nl) ==
            [envelope |-> envelope, text |-> Text(envelope, nl)]
    IN  [envelopes |->
             {File(Sealed(v, s), <<>>) :
                 v \in {JsonObj(<<>>), object, JsonInt(5)}, s \in Secrets}
             \cup {File(BadSig(Sealed(object, <<Code("k")>>)), <<>>),
                   File(Sealed(JsonObj(<<>>), <<Code("k")>>), <<13, 10>>)},
         others |-> {<<>>, Ord("x"), Ord("5")}]

\* _update_license_file(uploaded_bytes, license_file, license_key) on the
\* files fs, _today_utc() giving the second stamp and os.linesep being
\* linesep: the exception or the payload, and the files afterwards
UpdateLicenseFile(uploaded_bytes, fs, license_key, stamp, linesep) ==
    LET Raise(exc) == [exc |-> exc, payload |-> JsonInt(0), fs |-> fs]
        \* json.loads(raw): the envelope whose text raw is, a number, or
        \* JSONDecodeError
        parsed ==
            IF \E u \in Uploads.envelopes : u.text = uploaded_bytes
            THEN [ok |-> TRUE, kind |-> "obj",
                  envelope |->
                      (CHOOSE u \in Uploads.envelopes :
                          u.text = uploaded_bytes).envelope]
            ELSE [ok |-> uploaded_bytes = Ord("5"), kind |-> "int",
                  envelope |-> [version |-> "", nonce_b64 |-> <<>>,
                                ciphertext_b64 |-> <<>>,
                                signature_hex |-> <<>>]]
        dec == DecryptPayload(parsed.envelope, license_key)
        \* Path.read_text(encoding="utf-8"): CR LF and CR become LF
        ReadText(b) ==
            LET Kept(i) == ~(b[i] = 10 /\ i > 1 /\ b[i - 1] = 13)
                at == SelectSeq([i \in 1..Len(b) |-> i], Kept)
            IN  [j \in 1..Len(at) |->
                    IF b[at[j]] = 13 THEN 10 ELSE b[at[j]]]
        \* Path.write_text(text, encoding="utf-8"): LF becomes os.linesep
        WriteText(t) ==
            LET Written(c) == c >= 0
                slots ==
                    [k \in 1..(2 * Len(t)) |->
                        LET c == t[(k + 1) \div 2]
                        IN  IF c # 10 THEN (IF k % 2 = 1 THEN c ELSE -1)
                            ELSE IF k % 2 = 1 THEN linesep[1]
                            ELSE IF Len(linesep) = 2 THEN linesep[2]
                            ELSE -1]
            IN  SelectSeq(slots, Written)
    IN  IF uploaded_bytes = <<>> THEN Raise("empty_uploaded_file")
        ELSE IF license_key = <<>> THEN Raise("missing_license_key")
        ELSE IF \E i \in 1..Len(uploaded_bytes) : uploaded_bytes[i] >= 128
        THEN Raise("UnicodeDecodeError")
        ELSE IF ~parsed.ok THEN Raise("JSONDecodeError")
        ELSE IF parsed.kind # "obj" THEN Raise("AttributeError")
        ELSE IF ~dec.ok THEN Raise(dec.exc)
        ELSE IF dec.value.kind # "obj" THEN Raise("license_payload_not_dict")
        ELSE IF fs.file.exists
                /\ \E i \in 1..Len(fs.file.bytes) : fs.file.bytes[i] >= 128
        THEN Raise("UnicodeDecodeError")
        ELSE [exc |-> "none", payload |-> dec.value,
              fs |-> [file |-> [exists |-> TRUE, bytes |-> uploaded_bytes],
                      backups |->
                          IF fs.file.exists
                          THEN [fs.backups EXCEPT ![stamp] =
                                   [exists |-> TRUE,
                                    bytes |->
                                        WriteText(ReadText(fs.file.bytes))]]
                          ELSE fs.backups]]

\* The operator uploads a license file in the dashboard:
\* _update_license_file(upload.read(), license_file, license_key)
UpdateLicenseFileCall ==
    /\ call.busy \in {"none", "update"}
    /\ call.upd.n < MaxUpdates
    /\ \E uploaded_bytes \in
             {u.text : u \in Uploads.envelopes} \cup Uploads.others,
          license_key \in Secrets \cup {<<>>},
          stamp \in {s \in 1..2 : s >= call.upd.stamp},
          linesep \in {<<10>>, <<13, 10>>} :
          \E r \in {UpdateLicenseFile(uploaded_bytes, call.upd.fs,
                                      license_key, stamp, linesep)} :
              call' = [call EXCEPT
                          !.busy = "update",
                          !.upd = [n |-> call.upd.n + 1,
                                   before |-> call.upd.fs,
                                   fs |-> r.fs,
                                   uploaded_bytes |-> uploaded_bytes,
                                   license_key |-> license_key,
                                   stamp |-> stamp,
                                   exc |-> r.exc,
                                   payload |-> r.payload]]
    /\ UNCHANGED <<logVars, dashVars>>

NextCalls ==
    \/ LogAnalysisWrite
    \/ RenderQuota
    \/ BuildCostEstimateCall
    \/ NewDataLogger
    \/ SignHeartbeat
    \/ SignSummary
    \/ EvidenceSummarySig
    \/ FetchDecisionDistribution30dCall
    \/ UpdateLicenseFileCall

SpecCalls == Init /\ [][NextCalls]_vars

----------------------------------------------------------------------------
(* The compliance export button *)

\* main(): _export_scrub_log(usage_db_path, ...) over a ledger.  The ledgers
\* are the short ones over a few kinds of row, and long ones of LongRows(n)
\* whose two oldest rows share their ts_utc.
ExportScrubLogCall ==
    /\ call.busy = "none"
    /\ LET Row(id, type, ts, state, latency) ==
               [event_id |-> id, event_type |-> type, ts_utc |-> ts,
                decision_state |-> state, mode |-> Ord("live"),
                reason_code |-> <<>>, llm_used |-> <<1>>, cache_hit |-> <<>>,
                latency_ms |-> latency]
           RECURSIVE Digits(_)
           Digits(n) == IF n < 10 THEN <<48 + n>>
                        ELSE Append(Digits(n \div 10), 48 + (n % 10))
           kinds ==
               {Row(Ord("a_1"), "analysis", Ord("t1"), Ord("ALLOW"), <<12>>),
                Row(Ord("a_2"), "analysis", Ord("t2"), <<>>, <<>>),
                Row(Ord("e_3"), "error", Ord("t2"), Ord("ERROR"), <<>>),
                Row(Ord("e_4"), "error", Ord("t10"), Ord("ERROR"), <<>>),
                Row(Ord("f_5"), "feedback", Ord("t3"), Ord("FEEDBACK"), <<>>)}
           short ==
               {<<>>} \cup {<<a>> : a \in kinds}
                  \cup {<<a, b>> : a \in kinds, b \in kinds}
                  \cup {<<a, b, c>> : a \in kinds, b \in kinds, c \in kinds}
           LongRows(n) ==
               [i \in 1..n |->
                   Row(Ord("x_") \o Digits(i),
                       IF i % 50 = 0 THEN "feedback"
                       ELSE IF i % 7 = 0 THEN "error" ELSE "analysis",
                       IF i <= 2 THEN Ord("t0")
                       ELSE Ord("t") \o Digits(1 + (i % 9)),
                       Ord("ALLOW"), <<i % 100>>)]
           long == {LongRows(n) : n \in {5103, 5104}}
       IN  \E ledger \in short \cup long :
              \E payload \in ExportScrubLog(ledger, Ord("v1"), Ord("t11")) :
                 call' = [call EXCEPT !.busy = "export",
                                      !.exp = [ledger |-> ledger,
                                               payload |-> payload]]
    /\ UNCHANGED <<logVars, dashVars>>

SpecExport == Init /\ [][ExportScrubLogCall]_vars

----------------------------------------------------------------------------
(* Claims *)

\* heartbeat_counter of the stored rows is 1, 2, ... in rowid order
CountersInOrder ==
    \A i \in 1..Len(events) : events[i].heartbeat_counter = i

Quiescent == \A t \in Threads : pc[t] = "idle"

\* C1, as stated: after any N sequential calls of _append_usage_event on an
\* initially empty ledger the stored heartbeat_counter values are exactly
\* 1..N and _heartbeat_status returns ok = true.
C1_CountersOneToCalls ==
    Quiescent =>
        /\ Len(events) = ndone
        /\ CountersInOrder
        /\ HeartbeatStatus(meta).ok

\* C1, amended: after any N sequential calls of _append_usage_event on an
\* initially empty ledger, K of which committed (K <= N; the others raised
\* inside the call and were rolled back), the stored heartbeat_counter values
\* are exactly 1..K with no gap and no repeat, and _heartbeat_status returns
\* ok = true (reason no_events while K = 0, reason ok afterwards).
C1_ChainIntegrity ==
    /\ Len(events) = nok
    /\ nok <= ndone
    /\ CountersInOrder
    /\ HeartbeatStatus(meta).ok
    /\ HeartbeatStatus(meta).reason = (IF nok = 0 THEN "no_events" ELSE "ok")
    /\ HeartbeatStatus(meta).heartbeat_counter = nok

\* C1 witness: two sequential appends committed and the chain verifies.
C1_Witness ==
    /\ Quiescent
    /\ ndone = 2
    /\ Len(events) = 2
    /\ events[2].heartbeat_counter = 2
    /\ HeartbeatStatus(meta).reason = "ok"

\* The two verifiers of the chain, on the stored usage_meta.
LedgerVerdict == HeartbeatStatus(meta)

DashboardVerdict == VerifyHeartbeat(FetchUsageMeta(meta), UsageSigningKey)

\* C2, as stated: after a field of the last stored usage_events row was
\* changed with usage_meta untouched, chain verification returns ok = false
\* with reason signature_mismatch.
C2_RowEditDetected ==
    tamper.kind = "row" =>
        /\ ~LedgerVerdict.ok
        /\ LedgerVerdict.reason = "signature_mismatch"
        /\ ~DashboardVerdict.ok
        /\ DashboardVerdict.reason = "signature_mismatch"

\* C3, as stated: after rows of usage_events were deleted with usage_meta
\* untouched, chain verification no longer returns ok = true.
C3_DeletionDetected ==
    tamper.kind = "delete" => (~LedgerVerdict.ok /\ ~DashboardVerdict.ok)

\* C4, as stated: after one of the five chain values of usage_meta was
\* changed to a different value (last_event_id cleared included) chain
\* verification returns ok = false, and ok = true with reason no_events is
\* returned only for a ledger to which no event was ever appended.
C4_MetaEditDetected ==
    /\ tamper.kind = "meta" => ~LedgerVerdict.ok
    /\ (LedgerVerdict.ok /\ LedgerVerdict.reason = "no_events") => nok = 0

\* The five chain values of usage_meta.
ChainMeta(m) == [k \in ChainKeys |-> m[k]]

\* The five chain values mirror the row r, the newest of n rows.
Mirrors(m, r, n) ==
    /\ m["total_events"] = Str(n)
    /\ m["heartbeat_counter"] = Str(r.heartbeat_counter)
    /\ m["last_event_id"] = r.event_id
    /\ m["last_event_ts"] = r.ts_utc
    /\ m["last_heartbeat_sig"] = r.heartbeat_sig

\* C5: every step of the logger leaves usage_events and the five chain
\* values of usage_meta as they are, or is a committing append, which adds
\* exactly one row and sets all five values to mirror it; an append that
\* returns without committing changes neither.
C5_AllOrNothing ==
    [][ /\ (nok' = nok) =>
              (events' = events /\ ChainMeta(meta') = ChainMeta(meta))
        /\ (nok' # nok) =>
              /\ nok' = nok + 1
              /\ Len(events') = Len(events) + 1
              /\ SubSeq(events', 1, Len(events)) = events
              /\ Mirrors(meta', events'[Len(events')], Len(events'))
      ]_vars

\* C5 witness: one append committed and a later one failed and returned.
C5_Witness == nok = 1 /\ ndone = 2 /\ Len(events) = 1 /\ Quiescent

\* C6: in every interleaving of the threads' logging calls no two stored
\* events share a heartbeat_counter and no counter value is skipped: the
\* stored counters are 1, 2, ..., one per committed append.
C6_SerializedCounters ==
    /\ CountersInOrder
    /\ Len(events) = nok
    /\ \A i, j \in 1..Len(events) :
          events[i].heartbeat_counter = events[j].heartbeat_counter => i = j

\* C6 witness: a thread waits for the usage lock in _append_usage_event
\* while another thread holds it between reading the counters and writing.
C6_Witness ==
    \E t, u \in Threads :
        /\ t # u
        /\ usage_lock = t
        /\ pc[t] = "ap_write"
        /\ pc[u] = "ap_lock"

\* C7, as stated: when the append of a logging operation fails and is
\* rolled back, what the caller gets differs from what the caller of a
\* recorded event gets.
C7_CallerTold ==
    \A a, b \in outcomes :
        (a.op = b.op /\ a.recorded /\ ~b.recorded) => a.told # b.told

\* C8, as stated: two calls of emit_signed_monthly_summary for one month
\* with no event appended in between return the same signature and the same
\* counts.
C8_IdempotentFinalize ==
    \A m \in MonthKeys :
        (Len(emitted[m]) = 2 /\ emitted[m][1].nrows = emitted[m][2].nrows) =>
            /\ emitted[m][1].signature = emitted[m][2].signature
            /\ emitted[m][1].counts = emitted[m][2].counts

\* C9, as stated: once active_month is recorded as a new month, exactly one
\* finalize of the previous month has been performed, and it was performed
\* while active_month was still the previous month.
C9_FinalizeBeforeRecording ==
    meta["active_month"] # MonthKey(0) =>
        /\ finalLog[MonthKey(0)].n = 1
        /\ finalLog[MonthKey(0)].active = {MonthKey(0)}
        /\ files[MonthKey(0)].sig # NoFile

\* C10: in every interleaving of the threads' logging calls the rollover
\* finalize of a month is started at most once.
C10_FinalizeAtMostOnce ==
    \A m \in MonthKeys : finalLog[m].n <= 1

\* C10 witness: one thread is finalizing the previous month while another
\* thread's month check, made at the same transition, found nothing left to
\* finalize.
C10_Witness ==
    \E t, u \in Threads :
        /\ t # u
        /\ loc[t].em_cause = "rollover"
        /\ finalLog[loc[t].em_month].n = 1
        /\ pc[u] = "ru_write"
        /\ loc[u].now_month # loc[t].em_month
        /\ loc[u].to_finalize = NULL

\* C11: for every payload, license key and nonce, loading with the same key
\* the envelope that _encrypt_payload (of the dashboard or of the preview
\* script) wrote returns status ok and a payload equal to the original.
C11_RoundTrip ==
    (lic.pc = "done" /\ lic.flipped = "none" /\ lic.key = lic.secret) =>
        /\ lic.outcome = LoadOk(lic.payload)
        /\ lic.plain = Utf8Encode(JsonDumps(lic.payload))

\* C11 witness: an envelope of the preview script holding a payload of two
\* members was loaded with its key.
C11_Witness ==
    /\ lic.pc = "done"
    /\ lic.producer = "preview"
    /\ lic.key = lic.secret
    /\ Len(lic.payload.members) = 2
    /\ lic.outcome.status = "ok"
    /\ lic.outcome.payload = lic.payload

\* C12, as stated: after any single bit of ciphertext_b64 or of
\* signature_hex was changed, decrypt with the original secret fails, and
\* the failure is a signature mismatch.
C12_BitFlipDetected ==
    (lic.pc = "done" /\ lic.flipped # "none" /\ lic.key = lic.secret) =>
        lic.outcome = LoadFailed("signature_mismatch")

\* C13: decrypting an envelope as written with a secret other than the one
\* it was encrypted with fails with signature_mismatch; no plaintext is
\* decoded or parsed.
C13_WrongKeyRejected ==
    (lic.pc \in {"verified", "plain", "done"} /\ lic.flipped = "none"
        /\ lic.key # lic.secret) =>
        /\ lic.pc = "done"
        /\ lic.outcome = LoadFailed("signature_mismatch")
        /\ ~lic.xored

\* C13 witness: a load with the other license key has ended.
C13_Witness ==
    /\ lic.pc = "done"
    /\ lic.flipped = "none"
    /\ lic.key # lic.secret
    /\ lic.outcome.exc = "signature_mismatch"

\* C14: the ciphertext is XOR-decrypted only after the MAC over nonce and
\* ciphertext was compared equal to the stored signature; when the
\* comparison fails, or the envelope does not decode, no plaintext is
\* computed and none is returned.
C14_VerifyThenDecrypt ==
    /\ lic.xored =>
          /\ lic.compared
          /\ lic.sig_hex =
                LowerCodes(Hex(HmacSha256(KdfKey(lic.key),
                                          lic.nonce \o lic.ciphertext)))
    /\ (lic.pc = "done" /\ lic.outcome.status = "license_decrypt_failed"
           /\ lic.outcome.exc \in {"signature_mismatch", "Incorrect padding",
                                   "Invalid base64-encoded string"}) =>
          /\ ~lic.xored
          /\ lic.plain = <<>>
          /\ lic.outcome.payload = JsonObj(<<>>)

\* C14 witness: a load of an envelope with a changed ciphertext ended at the
\* comparison, before any XOR.
C14_Witness ==
    /\ lic.pc = "done"
    /\ lic.flipped = "ciphertext_b64"
    /\ lic.compared
    /\ ~lic.xored
    /\ lic.outcome = LoadFailed("signature_mismatch")

\* C15, as stated: every failed load gives the caller one and the same
\* outcome, the one a wrong key gives.
C15_SingleErrorKind ==
    (lic.pc = "done" /\ lic.outcome.status # "ok") =>
        lic.outcome = LoadFailed("signature_mismatch")

\* C16: a failed login that brings the run of consecutive failures to
\* max_attempts sets locked_until = now + lockout_seconds and resets the
\* counter to 0; any other failed login only counts, and nothing else sets
\* a lockout.
C16_LockoutAtMaxAttempts ==
    /\ sess.c3_failed_attempts = run.streak % max_attempts
    /\ (run.kind = "submit" /\ run.compared
           /\ ~VerifyAdminSecret(run.pwd)) =>
          IF run.streak % max_attempts = 0
          THEN /\ sess.c3_locked_until = run.at + lockout_seconds
               /\ sess.c3_failed_attempts = 0
          ELSE /\ sess.c3_locked_until = run.before.c3_locked_until
               /\ sess.c3_failed_attempts = run.before.c3_failed_attempts + 1
    /\ (run.streak < max_attempts) => sess.c3_locked_until = 0
    /\ (sess.c3_locked_until # run.before.c3_locked_until
           /\ sess.c3_locked_until # 0) =>
          (run.kind = "submit" /\ run.compared
              /\ ~VerifyAdminSecret(run.pwd))

\* C16 witness: the fifth consecutive failure has just set the lockout.
C16_Witness ==
    /\ (run.kind = "submit" /\ run.compared /\ ~VerifyAdminSecret(run.pwd))
    /\ run.streak = 5
    /\ run.before.c3_failed_attempts = 4
    /\ sess.c3_failed_attempts = 0
    /\ sess.c3_locked_until = run.at + 900

\* C17: a login attempt made while a lockout is active is rejected without
\* _verify_admin_secret being called and leaves the session state as it
\* was, whatever the submitted secret.
C17_LockedOutNoCompare ==
    (run.kind = "submit" /\ ~run.before.c3_authed
        /\ run.at < run.before.c3_locked_until) =>
        /\ ~run.compared
        /\ sess = run.before
        /\ ~run.served
        /\ ~run.page

\* C17 witness: the correct password was submitted one second before the
\* lockout ends.
C17_Witness ==
    /\ (run.kind = "submit" /\ ~run.before.c3_authed
        /\ run.at < run.before.c3_locked_until)
    /\ run.pwd = AdminPassword
    /\ run.at = run.before.c3_locked_until - 1
    /\ ~sess.c3_authed

\* C18: a login with the correct secret made while no lockout is active
\* leaves the session Authenticated with authed_at = now, the failure
\* counter 0 and locked_until 0.
C18_LoginSucceeds ==
    (run.kind = "submit" /\ run.pwd = AdminPassword
        /\ run.at >= run.before.c3_locked_until) =>
        /\ run.compared
        /\ sess = [c3_authed |-> TRUE, c3_authed_at |-> run.at,
                   c3_failed_attempts |-> 0, c3_locked_until |-> 0]
        /\ run.page

\* C18 witness: the correct password was submitted at the very second a
\* lockout ended, with failures counted before.
C18_Witness ==
    /\ run.kind = "submit"
    /\ run.pwd = AdminPassword
    /\ run.before.c3_locked_until = run.at
    /\ sess.c3_authed
    /\ sess.c3_locked_until = 0

\* C19: an access by an Authenticated session whose age exceeds
\* session_ttl_seconds leaves it LoggedOut and serves nothing; an access
\* within the TTL proceeds; the protected page is served to authenticated,
\* unexpired sessions only.
C19_SessionExpiry ==
    /\ (run.kind \in {"view", "logout"} /\ run.before.c3_authed) =>
          IF run.at - run.before.c3_authed_at > session_ttl_seconds
          THEN /\ ~sess.c3_authed
               /\ sess.c3_authed_at = 0
               /\ ~run.served
               /\ ~run.page
          ELSE run.served
    /\ run.served =>
          /\ run.before.c3_authed
          /\ run.at - run.before.c3_authed_at <= session_ttl_seconds
    /\ run.page => sess.c3_authed

\* C19 witness: a page load one second past the TTL ended the session and
\* shows the login form.
C19_Witness ==
    /\ run.kind = "view"
    /\ run.before.c3_authed
    /\ run.at - run.before.c3_authed_at = 1801
    /\ ~sess.c3_authed
    /\ run.form

\* C20: after Logout the session is LoggedOut (authenticated flag false,
\* authed_at 0) and the protected page is not shown; a session that is
\* not Authenticated is shown no protected page.
C20_LogoutEndsSession ==
    /\ run.kind = "logout" =>
          /\ ~sess.c3_authed
          /\ sess.c3_authed_at = 0
          /\ ~run.page
    /\ ~sess.c3_authed => ~run.page

\* C20 witness: Logout was pressed on the served page of a session within
\* its TTL, and the login form is back.
C20_Witness ==
    /\ run.kind = "logout"
    /\ run.before.c3_authed
    /\ run.served
    /\ ~sess.c3_authed
    /\ run.form

\* C21: the login form and the protected surface are served only when
\* exactly one of C3_ADMIN_PASSWORD and C3_ADMIN_PASSWORD_HASH is
\* configured; with neither or with both the page load is refused.
C21_ExactlyOneCredentialForm ==
    LET plain   == StripCodes(call.gate.env.C3_ADMIN_PASSWORD) # <<>>
        hashed  == StripCodes(call.gate.env.C3_ADMIN_PASSWORD_HASH) # <<>>
    IN  /\ call.gate.pc \in {"form", "answered"} => (plain # hashed)
        /\ call.gate.pc \in {"stopped", "form", "answered"}
              /\ (plain = hashed)
              => call.gate.pc = "stopped"

\* C22: a plaintext admin secret that fails the policy stops the page load
\* before any login is answered, with the first failed rule (length,
\* uppercase, lowercase, digit, symbol) as the reason; a secret shorter
\* than 12 characters gives password_too_short.
C22_WeakPlaintextRejected ==
    LET secret == StripCodes(call.gate.env.C3_ADMIN_PASSWORD)
        Has(lo, hi) ==
            \E i \in 1..Len(secret) : secret[i] >= lo /\ secret[i] <= hi
        symbol ==
            \E i \in 1..Len(secret) :
               ~(\/ secret[i] \in 48..57
                 \/ secret[i] \in 65..90
                 \/ secret[i] \in 97..122)
        failed ==
            <<Len(secret) < 12, ~Has(65, 90), ~Has(97, 122), ~Has(48, 57),
              ~symbol>>
        reasons ==
            <<"password_too_short", "missing_uppercase", "missing_lowercase",
              "missing_digit", "missing_symbol">>
        first == CHOOSE i \in 1..5 : failed[i] /\ \A j \in 1..(i - 1) : ~failed[j]
    IN  /\ secret # <<>>
        /\ \E i \in 1..5 : failed[i]
        /\ call.gate.pc \in {"stopped", "form", "answered"}
        => /\ call.gate.pc = "stopped"
           /\ call.gate.error = reasons[first]

\* C23: under a configured hash string that is malformed (not four
\* '$'-separated fields, a tag other than pbkdf2_sha256, an iteration
\* count that is no integer, a salt that is no base64) every candidate is
\* answered false, whatever the plaintext secret is.
C23_MalformedHashNeverVerifies ==
    LET pwd_hash == StripCodes(call.gate.env.C3_ADMIN_PASSWORD_HASH)
        fields   == Split(pwd_hash, 36)
        digits(t) ==
            LET body == IF t # <<>> /\ Head(t) \in {43, 45} THEN Tail(t) ELSE t
            IN  body # <<>> /\ \A i \in 1..Len(body) : body[i] \in 48..57
        malformed ==
            \/ Len(fields) # 4
            \/ fields[1] # Ord("pbkdf2_sha256")
            \/ ~digits(StripCodes(fields[2]))
            \/ ~B64Decode(fields[3]).ok
    IN  call.gate.pc = "answered" /\ pwd_hash # <<>> /\ malformed
        => /\ ~call.gate.verdict.result
           /\ call.gate.verdict.exc = "none"

\* C23 witness: the hash string carries the tag pbkdf2_sha1, the plaintext
\* secret is configured as well, and the candidate equal to that plaintext
\* secret was answered false.
C23_Witness ==
    LET fields == Split(StripCodes(call.gate.env.C3_ADMIN_PASSWORD_HASH), 36)
    IN  /\ call.gate.pc = "answered"
        /\ Len(fields) = 4
        /\ fields[1] = Ord("pbkdf2_sha1")
        /\ call.gate.candidate = StripCodes(call.gate.env.C3_ADMIN_PASSWORD)
        /\ call.gate.candidate # <<>>
        /\ ~call.gate.verdict.result

\* C29: log_analysis, log_feedback and log_error_event never raise to their
\* caller: whatever step of the call the usage store fails at, the caller
\* is handed the operation's dictionary.
C29_LoggingNeverRaises ==
    \A o \in outcomes :
       o.op \in {"analysis", "feedback", "error"} => o.told.status # "raised"

\* C24: no DataLogger is constructed and no heartbeat, summary or evidence
\* signature is produced without a signing key in the configuration: with
\* USAGE_SIGNING_KEY and LOG_SALT both blank the constructor raises, a
\* constructed logger holds a signing key that is not empty, and every
\* signature produced was keyed with a non-empty key of the configuration.
C24_NoSigningKeyNoLedger ==
    LET key  == StripCodes(call.boot.env.USAGE_SIGNING_KEY)
        salt == StripCodes(call.boot.env.LOG_SALT)
    IN  call.busy = "boot" =>
           /\ key = <<>> /\ salt = <<>> =>
                 /\ ~call.boot.logger.constructed
                 /\ call.boot.logger.exc = "RuntimeError"
           /\ call.boot.logger.constructed =>
                 /\ call.boot.logger.usage_signing_key # <<>>
                 /\ call.boot.logger.usage_signing_key \in {key, salt}
           /\ \A s \in call.boot.signed : s.key # <<>> /\ s.key \in {key, salt}

\* C24 witness: the constructor was called with USAGE_SIGNING_KEY and
\* LOG_SALT blank, it raised, and the dashboard's evidence summary was
\* refused as well; nothing is signed.
C24_Witness ==
    /\ call.busy = "boot"
    /\ StripCodes(call.boot.env.USAGE_SIGNING_KEY) = <<>>
    /\ StripCodes(call.boot.env.LOG_SALT) = <<>>
    /\ call.boot.pc = "refused"
    /\ call.boot.exc = "missing_signing_key"
    /\ call.boot.signed = {}

\* C25: for a known tier and non-negative usage_count and quota_limit the
\* estimate has effective quota max(quota_limit, included quota), overage
\* max(0, usage_count - effective quota), an overage fee within half a cent
\* of overage/1000 times the tier's rate, and projected total base fee plus
\* overage fee; PRO with usage 52,500 and quota_limit 0 gives 50,000,
\* 2,500, 7.50 and 506.50.
C25_CostEstimate ==
    LET b     == call.bill
        name  == [i \in 1..Len(b.tier) |->
                     IF b.tier[i] \in 97..122 THEN b.tier[i] - 32 ELSE b.tier[i]]
        known == {k \in {"LITE", "PRO", "ENTERPRISE"} : Ord(k) = name}
        row   == PRICING_TABLE[CHOOSE k \in known : TRUE]
        quota == IF b.quota_limit > row.included_quota THEN b.quota_limit
                 ELSE row.included_quota
        over  == IF b.usage_count > quota THEN b.usage_count - quota ELSE 0
        exact == over * row.overage_per_1k_cents
        off   == (1000 * b.cost.overage_fee_usd) - exact
    IN  /\ call.busy \in {"quota", "estimate"} /\ known # {}
           /\ b.usage_count >= 0 /\ b.quota_limit >= 0
           => /\ b.cost.included_quota = quota
              /\ b.cost.overage_count = over
              /\ off <= 500 /\ off >= 0 - 500
              /\ b.cost.projected_total_usd
                    = (100 * row.base_monthly_usd) + b.cost.overage_fee_usd
        /\ call.busy \in {"quota", "estimate"} /\ name = Ord("PRO")
           /\ b.usage_count = 52500 /\ b.quota_limit = 0
           => /\ b.cost.included_quota = 50000
              /\ b.cost.overage_count = 2500
              /\ b.cost.overage_fee_usd = 750
              /\ b.cost.projected_total_usd = 50650

\* C25 witness: the quota section was rendered for a PRO license without a
\* quota_limit of its own at 52,500 analysis events: overage fee 7.50,
\* projected total 506.50.
C25_Witness ==
    /\ call.busy = "quota"
    /\ call.bill.tier = Ord("PRO")
    /\ call.bill.usage_count = 52500
    /\ call.bill.quota_limit = 0
    /\ call.bill.cost.overage_count = 2500
    /\ call.bill.cost.overage_fee_usd = 750
    /\ call.bill.cost.projected_total_usd = 50650

\* C26 as stated: the tier of a payload is one of LITE, PRO, ENTERPRISE,
\* and a payload whose tier is missing, unknown or malformed has tier PRO.
C26_MissingTierIsPro ==
    LET ms      == call.bill.payload.members
        tiers   == {i \in 1..Len(ms) : ms[i].key = Ord("tier")}
        val     == ms[CHOOSE i \in tiers : TRUE].val
        name    == LET t == StripCodes(val.text)
                   IN  [i \in 1..Len(t) |->
                           IF t[i] \in 97..122 THEN t[i] - 32 ELSE t[i]]
    IN  call.busy = "quota" =>
           /\ call.bill.tier \in {Ord("LITE"), Ord("PRO"), Ord("ENTERPRISE")}
           /\ \/ tiers = {}
              \/ val.kind # "str"
              \/ name \notin {Ord("LITE"), Ord("PRO"), Ord("ENTERPRISE")}
              => call.bill.tier = Ord("PRO")

\* C26: the tier of a payload is one of LITE, PRO, ENTERPRISE.  It is read
\* from "tier", or from "plan" when the payload has no "tier"; when neither
\* is there, or the value read is no string, or its trimmed upper-case form
\* is no known tier, the tier is PRO; otherwise it is that form.  The
\* estimate for a tier text that is no known tier uses the PRO row.
C26_TierNormalizes ==
    LET ms      == call.bill.payload.members
        Upper(t) == [i \in 1..Len(t) |->
                        IF t[i] \in 97..122 THEN t[i] - 32 ELSE t[i]]
        known   == {Ord("LITE"), Ord("PRO"), Ord("ENTERPRISE")}
        tiers   == {i \in 1..Len(ms) : ms[i].key = Ord("tier")}
        plans   == {i \in 1..Len(ms) : ms[i].key = Ord("plan")}
        read    == IF tiers # {} THEN tiers ELSE plans
        val     == ms[CHOOSE i \in read : TRUE].val
        name    == Upper(StripCodes(val.text))
    IN  /\ call.busy = "quota" =>
              /\ call.bill.tier \in known
              /\ call.bill.tier =
                    IF read # {} /\ val.kind = "str" /\ name \in known
                    THEN name ELSE Ord("PRO")
        /\ call.busy = "estimate" /\ Upper(call.bill.tier) \notin known =>
              /\ call.bill.cost.base_monthly_usd = 49900
              /\ call.bill.cost.included_quota
                    = IF call.bill.quota_limit > 50000
                      THEN call.bill.quota_limit ELSE 50000
              /\ (1000 * call.bill.cost.overage_fee_usd)
                    - (300 * call.bill.cost.overage_count) \in (0 - 500)..500

\* C26 witness: a payload whose tier is "gold" was given tier PRO.
C26_Witness ==
    /\ call.busy = "quota"
    /\ \E i \in 1..Len(call.bill.payload.members) :
          /\ call.bill.payload.members[i].key = Ord("tier")
          /\ call.bill.payload.members[i].val = JsonStr(Ord("gold"))
    /\ call.bill.tier = Ord("PRO")

C30_PayloadContentFree ==
    LET RECURSIVE Keys(_)
        Keys(v) ==
            UNION {{v.members[n].key} \cup Keys(v.members[n].val) :
                     n \in 1..Len(v.members)}
        RECURSIVE Strings(_)
        Strings(v) ==
            (IF v.kind = "str" THEN {v.text} ELSE {})
               \cup UNION {Strings(v.members[n].val) : n \in 1..Len(v.members)}
        Norm(k) == LET t == StripCodes(k)
                   IN  [i \in 1..Len(t) |->
                           IF t[i] \in 65..90 THEN t[i] + 32 ELSE t[i]]
        risky == {Ord(r) : r \in RISKY_TEXT_KEYS \cup RISKY_DERIVED_KEYS}
    IN  call.busy = "log_analysis" /\ call.scrub.handed =>
           /\ \A k \in Keys(call.scrub.event) : Norm(k) \notin risky
           /\ call.scrub.input_text.kind = "str" =>
                 call.scrub.input_text.text \notin Strings(call.scrub.event)

\* C27: whenever an emit_signed_monthly_summary for a month has returned
\* and none for that month is under way, <month>.summary.sig is the
\* signature of the payload in <month>.summary.json.
C27_SummaryPairConsistent ==
    \A m \in MonthKeys :
       /\ files[m].sig # NoFile
       /\ emitted[m] # <<>>
       /\ \A t \in Threads :
             ~(pc[t] \in {"em_counts", "em_decisions", "em_sign", "em_sig"}
               /\ loc[t].em_month = m)
       => files[m].sig = SignPayload(files[m].summary)

----------------------------------------------------------------------------
(* C31 *)

\* C31: for every stored usage event, month is the year-month of the event's
\* own ts_utc and day is the calendar date of that ts_utc, also when the
\* event is appended at a day or month boundary.
C31_DatesDerivedFromTs ==
    \A i \in 1..Len(events) :
        \E t \in 0..MaxClock :
            /\ events[i].ts_utc = UtcIso(t)
            /\ events[i].month = MonthKey(t)
            /\ events[i].day = DayKey(t)

----------------------------------------------------------------------------
(* C32 *)

\* C32: every stored usage event has event_type in {analysis, feedback,
\* error} and decision_state in {ALLOW, GUIDE, BLOCK, ERROR, FEEDBACK},
\* whatever result dictionary the caller passes; decision_state is FEEDBACK
\* exactly when event_type is feedback, and every error event has ERROR.
C32_EventFieldsInRange ==
    \A i \in 1..Len(events) :
        /\ events[i].event_type \in {"analysis", "feedback", "error"}
        /\ events[i].decision_state
              \in {"ALLOW", "GUIDE", "BLOCK", "ERROR", "FEEDBACK"}
        /\ events[i].decision_state = "FEEDBACK"
              <=> events[i].event_type = "feedback"
        /\ events[i].event_type = "error"
              => events[i].decision_state = "ERROR"

\* A feedback event is stored, then an analysis event whose result gave
\* GUIDE (from decision_state "Guide" or from mode suggest or repair).
C32_Witness ==
    /\ Len(events) = 2
    /\ events[1].event_type = "feedback"
    /\ events[1].decision_state = "FEEDBACK"
    /\ events[2].event_type = "analysis"
    /\ events[2].decision_state = "GUIDE"

----------------------------------------------------------------------------
(* C33 *)

\* C33: the 30-day decision distribution counts an analysis or error event
\* written by the ledger if and only if the event's day is no earlier than
\* 29 days before today (UTC); older events are excluded.
C33_ThirtyDayWindow ==
    call.busy = "trend" =>
        LET t == call.trend
            Counted == {i \in 1..Len(t.ledger) :
                           /\ t.ledger[i].event_type \in {"analysis", "error"}
                           /\ t.ledger[i].written >= t.today - 29}
            CountOf(day, bucket) ==
                IF \E r \in t.rows : r.day = day /\ r.decision_bucket = bucket
                THEN (CHOOSE r \in t.rows :
                         r.day = day /\ r.decision_bucket = bucket).count
                ELSE 0
        IN  \A i \in 1..Len(t.ledger) :
               CountOf(t.ledger[i].day, "ALLOW")
                  + CountOf(t.ledger[i].day, "GUIDE")
                  + CountOf(t.ledger[i].day, "ERROR")
               = Cardinality({j \in Counted : t.ledger[j].day = t.ledger[i].day})

----------------------------------------------------------------------------
(* C34 *)

\* C34: after any sequence of successful and failed appends usage_meta
\* mirrors the last stored event: last_event_id, last_event_ts and
\* last_heartbeat_sig equal the event_id, ts_utc and heartbeat_sig of the
\* usage_events row with the greatest heartbeat_counter, and
\* usage_meta.heartbeat_counter equals that row's heartbeat_counter.
C34_MetaMirrorsLastEvent ==
    events # <<>> =>
        LET last == CHOOSE i \in 1..Len(events) :
                       \A j \in 1..Len(events) :
                          events[j].heartbeat_counter
                             <= events[i].heartbeat_counter
        IN  /\ MetaGet(meta, "last_event_id", <<>>) = events[last].event_id
            /\ MetaGet(meta, "last_event_ts", <<>>) = events[last].ts_utc
            /\ MetaGet(meta, "last_heartbeat_sig", <<>>)
                  = events[last].heartbeat_sig
            /\ MetaGetInt(meta, "heartbeat_counter", 0)
                  = events[last].heartbeat_counter

\* C34 witness: of two appends that returned one failed and one committed,
\* and usage_meta names the stored event.
C34_Witness ==
    /\ ndone = 2
    /\ nok = 1
    /\ \E o \in outcomes : ~o.recorded
    /\ meta["last_event_id"] = events[1].event_id

----------------------------------------------------------------------------
(* C35 *)

\* C35: after any sequence of logging operations on a ledger that started
\* empty (failed appends included, month rollovers included)
\* usage_meta.total_events equals usage_meta.heartbeat_counter and both equal
\* the number of rows in usage_events.
C35_TotalsEqualRowCount ==
    /\ MetaGetInt(meta, "total_events", 0)
          = MetaGetInt(meta, "heartbeat_counter", 0)
    /\ MetaGetInt(meta, "total_events", 0) = Len(events)

\* C35 witness: a logging call stored nothing, the month rolled over and was finalized,
\* and the append after the rollover committed.
C35_Witness ==
    /\ Quiescent
    /\ \E o \in outcomes : ~o.recorded
    /\ \E m \in MonthKeys : finalLog[m].n >= 1
    /\ Len(events) = 1
    /\ events[1].month # MonthKey(0)
    /\ meta["total_events"] = <<"1">>

----------------------------------------------------------------------------
(* C36 *)

\* C36: in every summary produced by emit_signed_monthly_summary the sum of
\* the decision_counts values equals counts.analysis_count, and
\* counts.analysis_count + counts.feedback_count equals counts.total_events,
\* also when events are appended concurrently with the emit.
C36_SummaryCountsAgree ==
    \A t \in Threads :
        pc[t] = "em_sig" =>
            LET counts    == loc[t].counts
                decisions == loc[t].decisions
                RECURSIVE Sum(_)
                Sum(D) == IF D = {} THEN 0
                          ELSE LET d == CHOOSE d \in D : TRUE
                               IN  decisions[d] + Sum(D \ {d})
            IN  /\ Sum(DOMAIN decisions) = counts.analysis_count
                /\ counts.analysis_count + counts.feedback_count
                      = counts.total_events

----------------------------------------------------------------------------
(* C37 *)

\* C37: with a non-decreasing clock, once the rollover finalize for month M
\* has read the ledger, no event with month = M is appended afterwards in
\* any interleaving of concurrent logging calls, so the counts in the
\* finalized summary of M equal the final ledger counts for M.
C37_FinalizedMonthClosed ==
    [][ \A m \in MonthKeys :
           finalLog[m].n >= 1 =>
              /\ {i \in 1..Len(events') : events'[i].month = m}
                    = {i \in 1..Len(events) : events[i].month = m}
              /\ emitted'[m] # <<>> =>
                    emitted'[m][Len(emitted'[m])].counts
                       = MonthCounts(events', m)
      ]_vars

\* C37 witness: the finalize of a month has read its counts while another
\* thread, which passed the month check before the month changed, is inside
\* _append_usage_event and about to insert its event, under the new month.
C37_Witness ==
    \E t, u \in Threads :
        /\ pc[t] = "em_decisions"
        /\ loc[t].em_cause = "rollover"
        /\ finalLog[loc[t].em_month].n >= 1
        /\ pc[u] = "ap_write"
        /\ loc[u].month_key # loc[t].em_month

----------------------------------------------------------------------------
(* C38 *)

\* C38: for every usage_meta state written by the ledger and the same
\* signing key, the dashboard's verifier (_verify_heartbeat) and the
\* ledger's verifier (_heartbeat_status) return the same ok flag and the
\* same reason.
C38_VerifiersAgree ==
    LET ledger    == HeartbeatStatus(meta)
        dashboard == VerifyHeartbeat(FetchUsageMeta(meta), UsageSigningKey)
    IN  /\ dashboard.ok = ledger.ok
        /\ dashboard.reason = ledger.reason

\* C38 witness: the ledger wrote usage_meta for a second event, in a later
\* month than the first, and both verifiers say ok.
C38_Witness ==
    /\ Len(events) = 2
    /\ events[1].month # events[2].month
    /\ meta["heartbeat_counter"] = <<"2">>
    /\ HeartbeatStatus(meta).reason = "ok"
    /\ VerifyHeartbeat(FetchUsageMeta(meta), UsageSigningKey).reason = "ok"

----------------------------------------------------------------------------
(* C39: a license update is all or nothing *)

\* C39: after _update_license_file, when the upload was empty, the key was
\* missing, the envelope was no valid JSON, the signature did not verify or
\* the payload was no object, the call has failed and the license file and
\* its backups are what they were; when the call succeeded, the upload
\* decrypts to an object under the license key, the backup of this call
\* holds the content the license file had before (when there was one), and
\* the file holds exactly the uploaded bytes.
C39_UpdateAllOrNothing ==
    call.busy = "update" =>
        LET u == call.upd
            sealed == {f \in Uploads.envelopes : f.text = u.uploaded_bytes}
            Accepted(f) ==
                LET dec == DecryptPayload(f.envelope, u.license_key)
                IN  dec.ok /\ dec.value.kind = "obj"
        IN  /\ (\/ u.uploaded_bytes = <<>>
                \/ u.license_key = <<>>
                \/ sealed = {}
                \/ \E f \in sealed : ~Accepted(f))
               => u.exc # "none" /\ u.fs = u.before
            /\ u.exc = "none"
               => /\ \E f \in sealed : Accepted(f)
                  /\ u.fs.file = [exists |-> TRUE, bytes |-> u.uploaded_bytes]
                  /\ u.before.file.exists
                     => u.fs.backups[u.stamp] = u.before.file

----------------------------------------------------------------------------
(* C40: the session invariant *)

\* C40: after every script run (a view, a login attempt, an expiry, a
\* logout) the stored failure counter is at least 0 and below max_attempts,
\* and a session that is authenticated has c3_authed_at > 0 and no lockout
\* in force.
C40_SessionInvariant ==
    /\ sess.c3_failed_attempts >= 0
    /\ sess.c3_failed_attempts < max_attempts
    /\ sess.c3_authed =>
          /\ sess.c3_authed_at > 0
          /\ ~LockoutActive(sess, wall)

\* A login that succeeded after a lockout had run out: the run before it
\* left a lock time, and the session is now authenticated.
C40_Witness ==
    /\ run.kind = "submit"
    /\ run.before.c3_locked_until > 0
    /\ sess.c3_authed

====
